---- MODULE Spec2Model ----
(***************************************************************************)
(* A model of house_audio: the PipeWire routing engine (AudioInterface),   *)
(* the clock-sync master election (PTPSync) and the node orchestrator      *)
(* (NodeManager).  Each subsystem has its own specification over the       *)
(* shared variables: SpecRoute, SpecElect, SpecNode, SpecHandoff,          *)
(* SpecDevice, SpecSync, SpecVolume, SpecDiscover, SpecConnect.            *)
(***************************************************************************)
EXTENDS Integers, Sequences, FiniteSets, TLC

VARIABLES
    outputs,     \* AudioInterface.outputs: device id -> channel count
    routes,      \* AudioInterface.routes: route id -> route record
    routeOrder,  \* insertion order of the keys of AudioInterface.routes
    pwLinks,     \* the links active in the PipeWire graph (pw-link -l)
    lastOp,      \* the last routing call: arguments, outcome, state before it
    nops,        \* number of routing calls made so far
    nexternal,   \* number of links removals by an external actor so far
    ids,         \* PTPSync._get_node_id() of each node
    epc,         \* where each node is in PTPSync.setup / _elect_master
    otherIds,    \* other_ids of each node's _elect_master
    inbox,       \* the datagrams queued on each node's socket, by sender
    elapsed,     \* whether time.time() - start has reached the 1 s window
    master,      \* PTPSync.master of each node
    mode,        \* NodeManager.mode
    py37,        \* the interpreter is Python 3.7: CancelledError is an Exception
    running,     \* NodeManager._running
    npc,         \* where NodeManager.start is
    tasksSet,    \* whether self.tasks has been assigned
    syncSet,     \* whether self.sync has been assigned a PTPSync
    task,        \* each monitor task: none, created, try, sleep or done
    cancelReq,   \* the monitor tasks with a cancellation requested and not yet delivered
    spc,         \* where each call of NodeManager.stop is
    stopSaw,     \* the monitor tasks each call of stop cancelled
    lateIter,    \* the monitors that began an iteration after the stop that cancelled them returned
    nodeStatus,  \* NodeManager.node_status["status"], "unset" while node_status is {}
    setupFailed, \* the capability whose setup raised in this start, None if none did
    rebuilt,     \* whether start has rebuilt the state snapshot (lines 53 and 57)
    lastError,   \* the subsystem whose call last raised inside _update_state or inside
                 \* a monitor's try block, None if none has
    hpc,         \* where NodeManager.handoff_device is
    harg,        \* its arguments (mac, target_node)
    hlog,        \* the phases it has awaited so far, each with its outcome
    hcount,      \* number of handoffs finished
    volumes,     \* AudioInterface.volumes: device id -> volume, in tenths
    dpc,         \* where NodeManager.handle_bluetooth_device is
    darg,        \* its arguments (mac, action)
    dlog,        \* the steps it has awaited so far, each with its outcome
    dret,        \* what it returned
    dmade,       \* the route ids its create_route call put in the table
    dcount,      \* number of handle_bluetooth_device calls finished
    offset,      \* PTPSync.offset, a fraction
    driftRate,   \* PTPSync.drift_rate, a fraction
    lastSync,    \* PTPSync.last_sync
    now,         \* time.time()
    rpc,         \* the PTPSync object: new, idle (set up), failed (setup raised) or
                 \* blocked (a call is inside recvfrom and no datagram arrives)
    rround,      \* the datagrams received in the last sampling round, in order
    slast,       \* the last PTPSync call: what it was and what it returned or raised
    scount,      \* number of check_drift and realign calls made
    vlast,       \* the last set_volume, get_volume or cleanup call of AudioInterface
    vcount,      \* number of set_volume and get_volume calls made
    vpc,         \* the AudioInterface object: live, or cleaned (cleanup has run)
    devices,     \* the local dict devices of discover_devices
    retryCount,  \* its local retry_count
    attempts,    \* what each pw-dump query of the call did, in order
    qpc,         \* where discover_devices is
    cpc,         \* where BluetoothInterface.connect_device is
    cmac,        \* its argument
    notes,       \* the lines bluetoothctl --monitor has written and the call has not read
    nnotes,      \* number of lines bluetoothctl --monitor has written
    pairOver,    \* whether 30 s have passed since the call began
    cret,        \* what the call returned
    mpc,         \* where _monitor_sync is in its iteration
    miter,       \* what the current (or last) iteration of _monitor_sync did
    audioDevices,  \* BluetoothInterface.audio_devices: mac -> device dict
    deviceOrder,   \* insertion order of its keys
    biter,       \* what the last iteration of _monitor_bluetooth did
    apc,         \* where each task's add_output_to_route call is
    aarg,        \* its arguments and its local route_id
    gpc,         \* where AudioInterface.get_status is
    gsize,       \* the size of self.routes when its for loop began
    gpos,        \* the position of the loop in the keys of self.routes
    gstart,      \* the keys of self.routes when the call began
    ghealth      \* its local route_health

routeVars == <<outputs, routes, routeOrder, pwLinks, lastOp, nops, nexternal>>
electVars == <<ids, epc, otherIds, inbox, elapsed, master>>
nodeVars == <<mode, py37, running, npc, tasksSet, syncSet, task, cancelReq, spc,
              stopSaw, lateIter, nodeStatus, setupFailed, rebuilt, lastError>>
handoffVars == <<hpc, harg, hlog, hcount>>
deviceVars == <<volumes, dpc, darg, dlog, dret, dmade, dcount>>
syncVars == <<offset, driftRate, lastSync, now, rpc, rround, slast, scount>>
volumeVars == <<vlast, vcount, vpc>>
discoverVars == <<devices, retryCount, attempts, qpc>>
connectVars == <<cpc, cmac, notes, nnotes, pairOver, cret>>
monitorVars == <<mpc, miter>>
signalVars == <<audioDevices, deviceOrder, biter>>
taskVars == <<apc, aarg, gpc, gsize, gpos, gstart, ghealth>>
extraVars == <<monitorVars, signalVars, taskVars>>
\* the tasks work on the route table and the PipeWire graph
nonTaskVars == <<outputs, routeOrder, lastOp, nops, nexternal, electVars, nodeVars,
                 handoffVars, deviceVars, syncVars, volumeVars, discoverVars, connectVars,
                 monitorVars, signalVars>>
nonSignalVars == <<routeVars, electVars, nodeVars, handoffVars, deviceVars, syncVars,
                   volumeVars, discoverVars, connectVars, monitorVars, taskVars>>
vars == <<routeVars, electVars, nodeVars, handoffVars, deviceVars, syncVars, volumeVars,
          discoverVars, connectVars, extraVars>>
nonRouteVars == <<electVars, nodeVars, handoffVars, deviceVars, syncVars, volumeVars,
                  discoverVars, connectVars,
        extraVars>>
nonElectVars == <<routeVars, nodeVars, handoffVars, deviceVars, syncVars, volumeVars,
                  discoverVars, connectVars,
        extraVars>>
nonNodeVars == <<routeVars, electVars, handoffVars, deviceVars, syncVars, volumeVars,
                 discoverVars, connectVars,
        extraVars>>
nonHandoffVars == <<routeVars, electVars, nodeVars, deviceVars, syncVars, volumeVars,
                    discoverVars, connectVars,
        extraVars>>
\* handle_bluetooth_device works on the route table and the PipeWire graph
nonDeviceVars == <<outputs, lastOp, nops, nexternal, electVars, nodeVars, handoffVars,
                   syncVars, volumeVars, discoverVars, connectVars,
        extraVars>>
\* PTPSync.setup stores the election's result in self.master
nonSyncVars == <<routeVars, ids, epc, otherIds, inbox, elapsed, nodeVars, handoffVars,
                 deviceVars, volumeVars, discoverVars, connectVars,
                 signalVars, taskVars>>
\* set_volume and cleanup work on the volume cache, cleanup and create_route on
\* the route table and the PipeWire graph
nonVolumeVars == <<outputs, lastOp, nops, nexternal, electVars, nodeVars, handoffVars,
                   dpc, darg, dlog, dret, dmade, dcount, syncVars, discoverVars,
                   connectVars,
        extraVars>>
\* discover_devices assigns self.outputs
nonDiscoverVars == <<routes, routeOrder, pwLinks, lastOp, nops, nexternal, electVars,
                     nodeVars, handoffVars, deviceVars, syncVars, volumeVars, connectVars,
        extraVars>>
nonConnectVars == <<routeVars, electVars, nodeVars, handoffVars, deviceVars, syncVars,
                    volumeVars, discoverVars,
        extraVars>>

(***************************************************************************)
(* Bounds and small input sets.                                            *)
(***************************************************************************)
MaxOps == 3
MaxExternal == 1
MaxHandoffs == 2

Sources == {"s1", "s2"}
KnownTargets == {"A", "B"}
Targets == KnownTargets \cup {"X"}
\* the device tables discover_devices may have stored (device id -> channels)
OutputTables == {[A |-> 1, B |-> 2], [A |-> 6, B |-> 1]}

Nodes == {"n1", "n2", "n3"}
Modes == {"standalone", "distributed"}
Monitors == {"sync", "bluetooth", "network"}
StopCalls == {"caller", "finally"}
IdValues == {3, 5, 9}

None == "None"
NoRoute == <<>>

(***************************************************************************)
(* Route ids and link descriptors.                                         *)
(***************************************************************************)
\* f"{source}->{target}"
RouteId(source, target) == <<source, target>>

\* f"bluez_source.{source}:monitor_{ch} -> {target}:playback_{ch}"
Link(source, target, ch) == <<source, target, ch>>

AllRouteIds == {RouteId(s, t) : s \in Sources, t \in Targets}
AllLinks == {Link(s, t, ch) : s \in Sources, t \in Targets, ch \in {"FL", "FR"}}

SeqToSet(q) == {q[i] : i \in 1..Len(q)}

IsMonoUpToStereo(outs, target) == outs[target] <= 2

\* is_mono = channels == 1, read back with target_info.get("is_mono", False)
IsMono(outs, target) == outs[target] = 1

\* the links create_route makes: FL always, FR unless the target is mono
CreateLinks(source, target, is_mono) ==
    IF is_mono THEN <<Link(source, target, "FL")>>
    ELSE <<Link(source, target, "FL"), Link(source, target, "FR")>>

\* the links add_output_to_route makes: FL and FR, whatever the target is
AddLinks(source, new_target) ==
    <<Link(source, new_target, "FL"), Link(source, new_target, "FR")>>

(***************************************************************************)
(* The backend.  A pw-link call either links, or exits non-zero without    *)
(* linking (env.fail; the code never reads the return code), or cannot be  *)
(* spawned and raises (env.raise).  A pw-link -d call either unlinks or    *)
(* leaves the link (env.ufail).                                            *)
(***************************************************************************)
NoEnv == [fail |-> {}, raise |-> {}, ufail |-> {}]

\* the outcomes drawn for one operation that may link L and unlink U: every call
\* works, every link call fails, one link call raises, or no unlink works
Envs(L, U) ==
    {NoEnv, [NoEnv EXCEPT !.fail = L]}
    \cup {[NoEnv EXCEPT !.raise = {l}] : l \in L}
    \cup {[NoEnv EXCEPT !.ufail = U]}

EnvOk(env) == env.fail = {} /\ env.raise = {}

\* one pw-link call that did not raise
PwLink(backend, link, env) ==
    IF link \in env.fail THEN backend ELSE backend \cup {link}

\* the pw-link calls of one operation, in order, up to the first that raises;
\* calls counts the pw-link processes the operation asked for
RECURSIVE PwLinkAll(_, _, _)
PwLinkAll(backend, links, env) ==
    IF links = <<>> THEN [backend |-> backend, raised |-> FALSE, calls |-> 0]
    ELSE IF Head(links) \in env.raise
         THEN [backend |-> backend, raised |-> TRUE, calls |-> 1]
    ELSE LET r == PwLinkAll(PwLink(backend, Head(links), env), Tail(links), env)
         IN [r EXCEPT !.calls = @ + 1]

\* _remove_route_links: pw-link -d for every recorded link
RemoveRouteLinks(backend, route, env) ==
    backend \ (SeqToSet(route.links) \ env.ufail)

(***************************************************************************)
(* The routing operations, as functions of the state w before the call.    *)
(* Each returns the state after, the exception raised (None if none), the  *)
(* route id involved and the boolean result.                               *)
(***************************************************************************)
World == [outputs |-> outputs, routes |-> routes, order |-> routeOrder,
          backend |-> pwLinks]

Result(w, exc, rid, ok) == [w |-> w, exc |-> exc, rid |-> rid, ok |-> ok, calls |-> 0]

\* a result of an operation that asked for n pw-link processes
Asked(r, n) == [r EXCEPT !.calls = n]

\* self.routes[route_id] = {...}: a new key goes last, an old key keeps its place
PutRoute(w, route_id, route) ==
    [w EXCEPT !.routes = (route_id :> route) @@ w.routes,
              !.order = IF route_id \in DOMAIN w.routes THEN w.order
                        ELSE Append(w.order, route_id)]

UnknownTargetIgnored(w, target) == Result(w, None, NoRoute, FALSE)

\* if target not in self.outputs: raise ValueError(f"Unknown output: {target}")
UnknownTarget(w, target) == Result(w, "ValueError", NoRoute, FALSE)

create_route(w, source, target, env) ==
    IF target \notin DOMAIN w.outputs
    THEN UnknownTarget(w, target)
    ELSE LET route_id == RouteId(source, target)
             is_mono == IsMono(w.outputs, target)
             links == CreateLinks(source, target, is_mono)
             r == PwLinkAll(w.backend, links, env)
             w1 == [w EXCEPT !.backend = r.backend]
         IN IF r.raised THEN Asked(Result(w1, "OSError", NoRoute, FALSE), r.calls)
            ELSE Asked(Result(PutRoute(w1, route_id,
                                       [source |-> source, outputs |-> <<target>>,
                                        links |-> links, is_mono |-> is_mono]),
                              None, route_id, TRUE), r.calls)

\* next((rid for rid in self.routes if rid.startswith(f"{source}->")), None)
RECURSIVE LastRouteOf(_, _)
LastRouteOf(order, source) ==
    IF order = <<>> THEN NoRoute
    ELSE IF order[Len(order)][1] = source THEN order[Len(order)]
    ELSE LastRouteOf(SubSeq(order, 1, Len(order) - 1), source)

RECURSIVE FirstRouteOf(_, _)
FirstRouteOf(order, source) ==
    IF order = <<>> THEN NoRoute
    ELSE IF Head(order)[1] = source THEN Head(order)
    ELSE FirstRouteOf(Tail(order), source)

NeverAlreadyAdded(route, new_target) == FALSE

\* new_target in route["outputs"]
AlreadyAdded(route, new_target) == new_target \in SeqToSet(route.outputs)

NoRouteForSourceIgnored(w, source) == Result(w, None, NoRoute, TRUE)

\* if not route_id: raise ValueError(f"No existing route for source {source}")
NoRouteForSource(w, source) == Result(w, "ValueError", NoRoute, FALSE)

add_output_to_route(w, source, new_target, env) ==
    LET route_id == FirstRouteOf(w.order, source) IN
    IF route_id = NoRoute THEN NoRouteForSource(w, source)
    ELSE LET route == w.routes[route_id] IN
         IF AlreadyAdded(route, new_target) THEN Result(w, None, route_id, TRUE)
         ELSE LET links == AddLinks(source, new_target)
                  r == PwLinkAll(w.backend, links, env)
                  w1 == [w EXCEPT !.backend = r.backend]
              IN IF r.raised THEN Asked(Result(w1, "OSError", route_id, FALSE), r.calls)
                 ELSE Asked(Result([w1 EXCEPT !.routes[route_id] =
                                       [route EXCEPT !.outputs = Append(@, new_target),
                                                     !.links = @ \o links]],
                                   None, route_id, TRUE), r.calls)

VerifyKnownOnly(w, route_id) == route_id \in DOMAIN w.routes

\* every recorded link is in the output of pw-link -l; False for an unknown id
verify_route(w, route_id) ==
    /\ route_id \in DOMAIN w.routes
    /\ \A i \in 1..Len(w.routes[route_id].links) :
           w.routes[route_id].links[i] \in w.backend

ReplayNothing(w, source, outs, env) ==
    [w |-> w, exc |-> None, rid |-> <<>>, ok |-> TRUE, calls |-> 0]

\* the add_output_to_route calls of repair_route, up to the first that raises
RECURSIVE ReplayOutputs(_, _, _, _)
ReplayOutputs(w, source, outs, env) ==
    IF outs = <<>> THEN Result(w, None, NoRoute, TRUE)
    ELSE LET a == add_output_to_route(w, source, Head(outs), env)
         IN IF a.exc # None THEN a
            ELSE LET rest == ReplayOutputs(a.w, source, Tail(outs), env)
                 IN Asked(rest, a.calls + rest.calls)

repair_route(w, route_id, env) ==
    IF route_id \notin DOMAIN w.routes THEN Result(w, None, route_id, FALSE)
    ELSE LET route == w.routes[route_id]
             w1 == [w EXCEPT !.backend = RemoveRouteLinks(w.backend, route, env)]
             c == create_route(w1, route.source, route.outputs[1], env)
         IN IF c.exc # None THEN Asked(Result(c.w, None, route_id, FALSE), c.calls)
            ELSE LET a == ReplayOutputs(c.w, route.source, Tail(route.outputs), env)
                     n == c.calls + a.calls
                 IN IF a.exc # None THEN Asked(Result(a.w, None, route_id, FALSE), n)
                    ELSE Asked(Result(a.w, None, c.rid, verify_route(a.w, c.rid)), n)

(***************************************************************************)
(* The routing actions.                                                    *)
(***************************************************************************)
\* what is remembered of a call: its arguments and outcome, whether every link
\* call of it worked, how many pw-link processes it asked for, whether it left
\* the route table and the graph as they were, and what held of the route when
\* it was made (preGone: an external actor had just removed the last of its
\* recorded links), and whether it left the records of the other routes as
\* they were
Record(op, source, target, r, env) ==
    [op |-> op, source |-> source, target |-> target, rid |-> r.rid,
     ok |-> r.ok, exc |-> r.exc, envOk |-> EnvOk(env), calls |-> r.calls,
     same |-> r.w.routes = routes /\ r.w.order = routeOrder /\ r.w.backend = pwLinks,
     preExists |-> r.rid \in DOMAIN routes,
     preMember |-> r.rid \in DOMAIN routes /\ target \in SeqToSet(routes[r.rid].outputs),
     preGone |-> r.rid \in DOMAIN routes /\ lastOp.op = "external"
                 /\ SeqToSet(routes[r.rid].links) \cap pwLinks = {},
     preOutputs |-> IF r.rid \in DOMAIN routes THEN routes[r.rid].outputs ELSE <<>>,
     othersSame |-> \A rid \in DOMAIN routes \ {r.rid} :
                        rid \in DOMAIN r.w.routes /\ r.w.routes[rid] = routes[rid]]

Commit(r) ==
    /\ routes' = r.w.routes
    /\ routeOrder' = r.w.order
    /\ pwLinks' = r.w.backend
    /\ nops' = nops + 1
    /\ UNCHANGED <<outputs, nexternal>>
    /\ UNCHANGED nonRouteVars

\* the links a call will ask the backend for
CreateAttempts(w, source, target) ==
    IF target \in DOMAIN w.outputs
    THEN SeqToSet(CreateLinks(source, target, IsMono(w.outputs, target)))
    ELSE {}

AddAttempts(w, source, new_target) ==
    LET route_id == FirstRouteOf(w.order, source) IN
    IF route_id = NoRoute \/ AlreadyAdded(w.routes[route_id], new_target) THEN {}
    ELSE SeqToSet(AddLinks(source, new_target))

CreateRoute ==
    /\ nops < MaxOps
    /\ \E source \in Sources, target \in Targets :
         \E env \in Envs(CreateAttempts(World, source, target), {}) :
           LET r == create_route(World, source, target, env)
           IN /\ Commit(r)
              /\ lastOp' = Record("create", source, target, r, env)

AddOutput ==
    /\ nops < MaxOps
    /\ \E source \in Sources, new_target \in Targets :
         \E env \in Envs(AddAttempts(World, source, new_target), {}) :
           LET r == add_output_to_route(World, source, new_target, env)
           IN /\ Commit(r)
              /\ lastOp' = Record("add", source, new_target, r, env)

\* the links a repair of route_id will ask the backend for, and those it unlinks
RepairAttempts(w, route_id) ==
    IF route_id \in DOMAIN w.routes
    THEN LET route == w.routes[route_id] IN
         CreateAttempts(w, route.source, route.outputs[1])
         \cup UNION {SeqToSet(AddLinks(route.source, route.outputs[i])) :
                        i \in 2..Len(route.outputs)}
    ELSE {}

RepairUnlinks(w, route_id) ==
    IF route_id \in DOMAIN w.routes THEN SeqToSet(w.routes[route_id].links) ELSE {}

RepairRoute ==
    /\ nops < MaxOps
    /\ \E route_id \in AllRouteIds :
         \E env \in Envs(RepairAttempts(World, route_id), RepairUnlinks(World, route_id)) :
           LET r == repair_route(World, route_id, env)
           IN /\ Commit(r)
              /\ lastOp' = Record("repair", route_id[1], route_id[2], r, env)

VerifyRoute ==
    /\ nops < MaxOps
    /\ \E route_id \in AllRouteIds :
           LET r == Result(World, None, route_id, verify_route(World, route_id))
           IN /\ Commit(r)
              /\ lastOp' = Record("verify", route_id[1], route_id[2], r, NoEnv)

\* an external actor removes one link, or every link recorded for one route,
\* from the PipeWire graph
ExternalUnlink ==
    /\ nexternal < MaxExternal
    /\ \E gone \in {{l} : l \in pwLinks}
                  \cup {SeqToSet(routes[rid].links) : rid \in DOMAIN routes} :
         /\ gone \cap pwLinks # {}
         /\ pwLinks' = pwLinks \ gone
    /\ nexternal' = nexternal + 1
    /\ lastOp' = [lastOp EXCEPT !.op = "external"]
    /\ UNCHANGED <<outputs, routes, routeOrder, nops>>
    /\ UNCHANGED nonRouteVars

\* __init__: no route, and no routing call made yet
NoRoutes ==
    /\ routes = <<>>
    /\ routeOrder = <<>>
    /\ pwLinks = {}
    /\ nops = 0
    /\ nexternal = 0
    /\ lastOp = [op |-> "init", source |-> None, target |-> None, rid |-> NoRoute,
                 ok |-> TRUE, exc |-> None, envOk |-> TRUE, calls |-> 0, same |-> TRUE,
                 preExists |-> FALSE,
                 preMember |-> FALSE, preGone |-> FALSE, preOutputs |-> <<>>,
                 othersSame |-> TRUE]

InitRoute ==
    /\ outputs \in OutputTables
    /\ NoRoutes

NextRoute ==
    \/ CreateRoute
    \/ AddOutput
    \/ RepairRoute
    \/ VerifyRoute
    \/ ExternalUnlink

(***************************************************************************)
(* The master election of PTPSync.setup, one process per node.             *)
(***************************************************************************)
Min(S) == CHOOSE x \in S : \A y \in S : x <= y

Max(S) == CHOOSE x \in S : \A y \in S : x >= y

ElectBelowMax(our_id, other_ids) ==
    IF other_ids # {} THEN our_id < Max(other_ids) ELSE TRUE

\* return our_id < min(other_ids) if other_ids else True
ElectMaster(our_id, other_ids) ==
    IF other_ids # {} THEN our_id < Min(other_ids) ELSE TRUE

\* __init__: no socket, master False
InitElect ==
    /\ ids \in [Nodes -> IdValues]
    /\ epc = [n \in Nodes |-> "init"]
    /\ otherIds = [n \in Nodes |-> {}]
    /\ inbox = [n \in Nodes |-> {}]
    /\ elapsed = [n \in Nodes |-> FALSE]
    /\ master = [n \in Nodes |-> FALSE]

\* setup: the socket is created and bound to port 319
Bind(n) ==
    /\ epc[n] = "init"
    /\ epc' = [epc EXCEPT ![n] = "bound"]
    /\ UNCHANGED <<ids, otherIds, inbox, elapsed, master>>
    /\ UNCHANGED nonElectVars

\* _elect_master: the node id is broadcast; the datagram reaches the bound
\* sockets of the other nodes, or is lost on the way to some of them.  The
\* window starts, with an empty other_ids.
Broadcast(n) ==
    /\ epc[n] = "bound"
    /\ \E reached \in SUBSET {m \in Nodes \ {n} : epc[m] # "init"} :
           inbox' = [m \in Nodes |-> IF m \in reached THEN inbox[m] \cup {n}
                                     ELSE inbox[m]]
    /\ epc' = [epc EXCEPT ![n] = "loop"]
    /\ UNCHANGED <<ids, otherIds, elapsed, master>>
    /\ UNCHANGED nonElectVars

\* while time.time() - start < 1: the loop is left once the window has passed,
\* and the election result is returned and stored in self.master
CheckWindow(n) ==
    /\ epc[n] = "loop"
    /\ IF elapsed[n]
       THEN /\ epc' = [epc EXCEPT ![n] = "done"]
            /\ master' = [master EXCEPT ![n] = ElectMaster(ids[n], otherIds[n])]
       ELSE /\ epc' = [epc EXCEPT ![n] = "recv"]
            /\ UNCHANGED master
    /\ UNCHANGED <<ids, otherIds, inbox, elapsed>>
    /\ UNCHANGED nonElectVars

\* data, addr = self.socket.recvfrom(8) on a socket with no timeout set: the
\* call returns when a datagram is there, and only then
Recv(n) ==
    /\ epc[n] = "recv"
    /\ \E m \in inbox[n] :
         /\ inbox' = [inbox EXCEPT ![n] = @ \ {m}]
         /\ otherIds' = [otherIds EXCEPT ![n] = @ \cup {ids[m]}]
    /\ epc' = [epc EXCEPT ![n] = "loop"]
    /\ UNCHANGED <<ids, elapsed, master>>
    /\ UNCHANGED nonElectVars

\* the steps of node n's election
ElectStep(n) == CheckWindow(n) \/ Recv(n)

\* time passes: one second after a node's election started
WindowPasses(n) ==
    /\ epc[n] \in {"loop", "recv"}
    /\ ~elapsed[n]
    /\ elapsed' = [elapsed EXCEPT ![n] = TRUE]
    /\ UNCHANGED <<ids, epc, otherIds, inbox, master>>
    /\ UNCHANGED nonElectVars

NextElect ==
    \/ \E n \in Nodes : Bind(n)
    \/ \E n \in Nodes : Broadcast(n)
    \/ \E n \in Nodes : CheckWindow(n)
    \/ \E n \in Nodes : Recv(n)
    \/ \E n \in Nodes : WindowPasses(n)

(***************************************************************************)
(* NodeManager: start, setup, the monitor tasks and stop.  Every await is  *)
(* a point where the other coroutines of the event loop may run.           *)
(***************************************************************************)
\* setup: three monitors in distributed mode, the Bluetooth monitor otherwise
MonitorsOf(m) == IF m = "distributed" THEN Monitors ELSE {"bluetooth"}

\* whether a monitor's try block awaits something that suspends it: check_drift
\* of a slave and bluetooth.get_status do; _get_network_stats is a stub
BodySuspends(t) == t \in {"sync", "bluetooth"}

\* __init__
InitNode ==
    /\ mode \in Modes
    /\ py37 \in BOOLEAN
    /\ running = FALSE
    /\ npc = "idle"
    /\ tasksSet = FALSE
    /\ syncSet = FALSE
    /\ task = [t \in Monitors |-> "none"]
    /\ cancelReq = {}
    /\ spc = [c \in StopCalls |-> "idle"]
    /\ stopSaw = [c \in StopCalls |-> {}]
    /\ lateIter = {}
    /\ nodeStatus = "unset"
    /\ setupFailed = None
    /\ rebuilt = FALSE
    /\ lastError = None

\* start: self._running = True, then setup is awaited
Start ==
    /\ npc = "idle"
    /\ running' = TRUE
    /\ npc' = "setup_audio"
    /\ UNCHANGED <<mode, py37, tasksSet, syncSet, task, cancelReq, spc, stopSaw, lateIter>>
    /\ UNCHANGED <<nodeStatus, setupFailed, rebuilt, lastError>>
    /\ UNCHANGED nonNodeVars

\* self.tasks = [asyncio.create_task(...), ...]
CreateTasks ==
    /\ task' = [t \in Monitors |-> IF t \in MonitorsOf(mode) THEN "created" ELSE "none"]
    /\ tasksSet' = TRUE

AfterSetupIgnoringFailure(ok, next) == next

\* where start goes after one awaited setup: on to the next statement, or, when
\* the setup raised, through "except Exception: ... raise" to its finally
AfterSetup(ok, next) == IF ok THEN next ELSE "finally_exc"

\* "status": "running" if self._running else "stopped"
StatusOf(is_running) == IF is_running THEN "running" ELSE "stopped"

\* _update_state: the snapshot is rebuilt from the interfaces' get_status, which
\* need no setup; an exception is logged and node_status stays as it was
UpdateState ==
    \E ok \in BOOLEAN :
        IF ok THEN nodeStatus' = StatusOf(running) /\ UNCHANGED lastError
        ELSE /\ UNCHANGED nodeStatus
             /\ \E sub \in {"audio", "bluetooth"} : lastError' = sub

\* setup: await self.audio.setup(); a failure leaves start through its finally
SetupAudio ==
    /\ npc = "setup_audio"
    /\ \E ok \in BOOLEAN :
         /\ npc' = AfterSetup(ok, "setup_bluetooth")
         /\ setupFailed' = IF ok THEN setupFailed ELSE "audio"
    /\ UNCHANGED <<mode, py37, running, tasksSet, syncSet, task, cancelReq, spc,
                   stopSaw, lateIter>>
    /\ UNCHANGED <<nodeStatus, rebuilt, lastError>>
    /\ UNCHANGED nonNodeVars

\* setup: await self.bluetooth.setup(); in standalone mode the tasks are
\* created next, in distributed mode self.sync = PTPSync() is
SetupBluetooth ==
    /\ npc = "setup_bluetooth"
    /\ \E ok \in BOOLEAN :
         /\ npc' = AfterSetup(ok, IF mode = "distributed" THEN "setup_sync" ELSE "update")
         /\ setupFailed' = IF ok THEN setupFailed ELSE "bluetooth"
         /\ IF ~ok THEN UNCHANGED <<tasksSet, syncSet, task>>
            ELSE IF mode = "distributed"
                 THEN syncSet' = TRUE /\ UNCHANGED <<tasksSet, task>>
                 ELSE CreateTasks /\ UNCHANGED syncSet
    /\ UNCHANGED <<mode, py37, running, cancelReq, spc, stopSaw, lateIter>>
    /\ UNCHANGED <<nodeStatus, rebuilt, lastError>>
    /\ UNCHANGED nonNodeVars

\* setup: await self.sync.setup(), then the three tasks are created
SetupSync ==
    /\ npc = "setup_sync"
    /\ \E ok \in BOOLEAN :
         /\ npc' = AfterSetup(ok, "update")
         /\ setupFailed' = IF ok THEN setupFailed ELSE "sync"
         /\ IF ok THEN CreateTasks ELSE UNCHANGED <<tasksSet, task>>
    /\ UNCHANGED <<mode, py37, running, syncSet, cancelReq, spc, stopSaw, lateIter>>
    /\ UNCHANGED <<nodeStatus, rebuilt, lastError>>
    /\ UNCHANGED nonNodeVars

\* start: the initial await self._update_state() after setup
InitialUpdate ==
    /\ npc = "update"
    /\ npc' = "loop"
    /\ UpdateState
    /\ rebuilt' = TRUE
    /\ UNCHANGED <<mode, py37, running, tasksSet, syncSet, task, cancelReq, spc,
                   stopSaw, lateIter, setupFailed>>
    /\ UNCHANGED nonNodeVars

\* while self._running: await self._update_state(); await asyncio.sleep(5)
Supervise ==
    /\ npc = "loop"
    /\ IF running
       THEN npc' = "loop" /\ UpdateState /\ rebuilt' = TRUE
       ELSE npc' = "finally_ok" /\ UNCHANGED <<nodeStatus, rebuilt, lastError>>
    /\ UNCHANGED <<mode, py37, running, tasksSet, syncSet, task, cancelReq, spc,
                   stopSaw, lateIter, setupFailed>>
    /\ UNCHANGED nonNodeVars

\* a caller of set_volume, connect_bluetooth or disconnect_bluetooth, whose last
\* statement awaits _update_state; start runs for as long as the node does, so
\* these calls are made while it is anywhere
ApiUpdateState ==
    /\ UpdateState
    /\ UNCHANGED <<mode, py37, running, npc, tasksSet, syncSet, task, cancelReq, spc,
                   stopSaw, lateIter, setupFailed, rebuilt>>
    /\ UNCHANGED nonNodeVars

\* the pc of a stop call after its synchronous start: without self.tasks the
\* for statement raises AttributeError, which stop's except logs
AfterCancel(assigned) == IF assigned THEN "audio" ELSE "returned"

\* stop: self._running = False; for task in self.tasks: task.cancel()
StopBegin(c) ==
    /\ spc[c] = "idle"
    /\ c = "finally" => npc \in {"finally_ok", "finally_exc"}
    /\ running' = FALSE
    /\ LET alive == {t \in Monitors : task[t] \notin {"none", "done"}}
       IN IF tasksSet
          THEN /\ cancelReq' = cancelReq \cup alive
               /\ stopSaw' = [stopSaw EXCEPT ![c] = alive]
          ELSE UNCHANGED <<cancelReq, stopSaw>>
    /\ spc' = [spc EXCEPT ![c] = AfterCancel(tasksSet)]
    /\ UNCHANGED <<mode, py37, npc, tasksSet, syncSet, task, lateIter>>
    /\ UNCHANGED <<nodeStatus, setupFailed, rebuilt, lastError>>
    /\ UNCHANGED nonNodeVars

\* stop: await self.audio.cleanup(); an exception ends stop in its except
StopAudio(c) ==
    /\ spc[c] = "audio"
    /\ \E ok \in BOOLEAN : spc' = [spc EXCEPT ![c] = IF ok THEN "bluetooth" ELSE "returned"]
    /\ UNCHANGED <<mode, py37, running, npc, tasksSet, syncSet, task, cancelReq,
                   stopSaw, lateIter>>
    /\ UNCHANGED <<nodeStatus, setupFailed, rebuilt, lastError>>
    /\ UNCHANGED nonNodeVars

\* stop: await self.bluetooth.cleanup(), which logs its own exceptions
StopBluetooth(c) ==
    /\ spc[c] = "bluetooth"
    /\ spc' = [spc EXCEPT ![c] = "sync"]
    /\ UNCHANGED <<mode, py37, running, npc, tasksSet, syncSet, task, cancelReq,
                   stopSaw, lateIter>>
    /\ UNCHANGED <<nodeStatus, setupFailed, rebuilt, lastError>>
    /\ UNCHANGED nonNodeVars

\* stop: await self.sync.cleanup(); with self.sync None the AttributeError is
\* logged by stop's except; stop returns either way
StopSync(c) ==
    /\ spc[c] = "sync"
    /\ spc' = [spc EXCEPT ![c] = "returned"]
    /\ UNCHANGED <<mode, py37, running, npc, tasksSet, syncSet, task, cancelReq,
                   stopSaw, lateIter>>
    /\ UNCHANGED <<nodeStatus, setupFailed, rebuilt, lastError>>
    /\ UNCHANGED nonNodeVars

\* start: the finally clause's stop has returned; start returns or re-raises
StartEnds ==
    /\ npc \in {"finally_ok", "finally_exc"}
    /\ spc["finally"] = "returned"
    /\ npc' = IF npc = "finally_ok" THEN "returned" ELSE "raised"
    /\ UNCHANGED <<mode, py37, running, tasksSet, syncSet, task, cancelReq, spc,
                   stopSaw, lateIter>>
    /\ UNCHANGED <<nodeStatus, setupFailed, rebuilt, lastError>>
    /\ UNCHANGED nonNodeVars

\* what CancelledError does to a monitor suspended inside its try block:
\* "except Exception" catches it on Python 3.7 and the loop goes on to its
\* sleep; from 3.8 on it is a BaseException and ends the task
CancelledInTry(is37) == IF is37 THEN "sleep" ELSE "done"

EndsOnError(ok) == IF ok THEN "sleep" ELSE "done"

\* where a monitor is after its try block returned (ok) or raised an Exception:
\* "except Exception as e: self.logger.error(...)", then the await
\* asyncio.sleep that ends the iteration
AfterBody(ok) == "sleep"

\* a monitor is resumed at the top of its loop (the task's first step, or the
\* end of asyncio.sleep): a requested cancellation ends it there, otherwise
\* the next iteration begins; the body of _monitor_network does not suspend
\* (_get_network_stats is a stub returning None) and stats["jitter"] raises
\* TypeError in it
MonitorIterate(t) ==
    /\ task[t] \in {"created", "sleep"}
    /\ IF t \in cancelReq
       THEN task' = [task EXCEPT ![t] = "done"] /\ UNCHANGED <<lateIter, lastError>>
       ELSE /\ task' = [task EXCEPT ![t] = IF BodySuspends(t) THEN "try"
                                           ELSE AfterBody(FALSE)]
            /\ lastError' = IF BodySuspends(t) THEN lastError ELSE t
            /\ lateIter' = IF \E c \in StopCalls : spc[c] = "returned" /\ t \in stopSaw[c]
                           THEN lateIter \cup {t} ELSE lateIter
    /\ cancelReq' = cancelReq \ {t}
    /\ UNCHANGED <<mode, py37, running, npc, tasksSet, syncSet, spc, stopSaw>>
    /\ UNCHANGED <<nodeStatus, setupFailed, rebuilt>>
    /\ UNCHANGED nonNodeVars

\* a monitor is resumed at the await inside its try block: the awaited call
\* returns or raises, and "except Exception" logs what it raised
MonitorBody(t) ==
    /\ task[t] = "try"
    /\ IF t \in cancelReq
       THEN /\ task' = [task EXCEPT ![t] = CancelledInTry(py37)]
            /\ UNCHANGED lastError
       ELSE \E ok \in BOOLEAN :
              /\ task' = [task EXCEPT ![t] = AfterBody(ok)]
              /\ lastError' = IF ok THEN lastError ELSE t
    /\ cancelReq' = cancelReq \ {t}
    /\ UNCHANGED <<mode, py37, running, npc, tasksSet, syncSet, spc, stopSaw, lateIter>>
    /\ UNCHANGED <<nodeStatus, setupFailed, rebuilt>>
    /\ UNCHANGED nonNodeVars

NextNode ==
    \/ Start
    \/ SetupAudio
    \/ SetupBluetooth
    \/ SetupSync
    \/ InitialUpdate
    \/ Supervise
    \/ ApiUpdateState
    \/ StartEnds
    \/ \E c \in StopCalls : StopBegin(c)
    \/ \E c \in StopCalls : StopAudio(c)
    \/ \E c \in StopCalls : StopBluetooth(c)
    \/ \E c \in StopCalls : StopSync(c)
    \/ \E t \in Monitors : MonitorIterate(t)
    \/ \E t \in Monitors : MonitorBody(t)

(***************************************************************************)
(* NodeManager.handoff_device.  The four phase coroutines are stubs in the *)
(* source; each awaited phase either returns or raises.                    *)
(***************************************************************************)
InitHandoff ==
    /\ hpc = "idle"
    /\ harg = <<None, None>>
    /\ hlog = <<>>
    /\ hcount = 0

HandoffCall ==
    /\ hpc = "idle"
    /\ hcount < MaxHandoffs
    /\ \E mac \in Sources, target_node \in Nodes : harg' = <<mac, target_node>>
    /\ hlog' = <<>>
    /\ hpc' = "prepare"
    /\ UNCHANGED hcount
    /\ UNCHANGED nonHandoffVars

AfterPhaseIgnoringFailure(phase, ok) ==
    CASE phase = "prepare" -> "transfer"
      [] phase = "transfer" -> "finalize"
      [] phase = "finalize" -> "returned"

\* the try block runs the phases in order; an exception in one goes to the
\* except clause, which awaits _rollback_handoff
AfterPhase(phase, ok) ==
    IF ~ok THEN "rollback"
    ELSE CASE phase = "prepare" -> "transfer"
           [] phase = "transfer" -> "finalize"
           [] phase = "finalize" -> "returned"

RunPhase(phase) ==
    /\ hpc = phase
    /\ \E ok \in BOOLEAN :
         /\ hlog' = Append(hlog, [phase |-> phase, ok |-> ok])
         /\ hpc' = AfterPhase(phase, ok)
    /\ UNCHANGED <<harg, hcount>>
    /\ UNCHANGED nonHandoffVars

\* await self._prepare_handoff(mac, target_node)
PrepareHandoff == RunPhase("prepare")

\* await self._transfer_audio_stream(mac, target_node)
TransferAudioStream == RunPhase("transfer")

\* await self._finalize_handoff(mac, target_node)
FinalizeHandoff == RunPhase("finalize")

\* except Exception: await self._rollback_handoff(mac); if that raises, so
\* does handoff_device
RollbackHandoff ==
    /\ hpc = "rollback"
    /\ \E ok \in BOOLEAN :
         /\ hlog' = Append(hlog, [phase |-> "rollback", ok |-> ok])
         /\ hpc' = IF ok THEN "returned" ELSE "raised"
    /\ UNCHANGED <<harg, hcount>>
    /\ UNCHANGED nonHandoffVars

\* handoff_device is over; the caller may hand off again
HandoffEnds ==
    /\ hpc \in {"returned", "raised"}
    /\ hpc' = "idle"
    /\ hcount' = hcount + 1
    /\ UNCHANGED <<harg, hlog>>
    /\ UNCHANGED nonHandoffVars

NextHandoff ==
    \/ HandoffCall
    \/ PrepareHandoff
    \/ TransferAudioStream
    \/ FinalizeHandoff
    \/ RollbackHandoff
    \/ HandoffEnds

(***************************************************************************)
(* AudioInterface.set_volume and NodeManager.handle_bluetooth_device.      *)
(* Volumes are counted in tenths: 0.7 is 7 and the upper limit 1 is 10.    *)
(***************************************************************************)
MaxDeviceCalls == 2

\* self.default_output = "default"
default_output == "default"

\* the device tables discover_devices may have stored when the orchestrator
\* handles a device: with a device whose id is default_output, or without
DeviceTables == {[default |-> 2], [default |-> 1], [A |-> 1, B |-> 2]}

DeviceActions == {"connect", "disconnect", "other"}

\* await self.audio.set_volume(self.default_output, 0.7)
DefaultVolume == 7

\* if not 0 <= volume <= 1
VolumeOne == 10

\* what the backend does with a set_volume: wpctl exits 0; wpctl exits non-zero
\* and pw-cli runs (its exit code is not read); wpctl cannot be spawned; pw-cli
\* cannot be spawned
VolumeEnvs == {"wpctl", "pwcli", "wpctl_raises", "pwcli_raises"}

SetVolumeUnchecked(vols, device, volume, env) ==
    [volumes |-> (device :> volume) @@ vols, exc |-> None, calls |-> 1]

set_volume(vols, device, volume, env) ==
    IF ~(0 <= volume /\ volume <= VolumeOne)
    THEN [volumes |-> vols, exc |-> "ValueError", calls |-> 0]
    ELSE CASE env = "wpctl" -> [volumes |-> (device :> volume) @@ vols, exc |-> None,
                                calls |-> 1]
           [] env = "pwcli" -> [volumes |-> (device :> volume) @@ vols, exc |-> None,
                                calls |-> 2]
           [] env = "wpctl_raises" -> [volumes |-> vols, exc |-> "OSError", calls |-> 1]
           [] env = "pwcli_raises" -> [volumes |-> vols, exc |-> "OSError", calls |-> 2]

\* __init__ of AudioInterface (self.volumes = {}) and no call in progress
InitDevice ==
    /\ volumes = <<>>
    /\ dpc = "idle"
    /\ darg = <<None, None>>
    /\ dlog = <<>>
    /\ dret = FALSE
    /\ dmade = {}
    /\ dcount = 0

AfterStepIgnoringFailure(step, ok) ==
    CASE step = "connect" -> "stabilize"
      [] step = "create_route" -> "volume"
      [] step = "set_volume" -> "returned"
      [] step = "disconnect" -> "returned"

\* where handle_bluetooth_device goes after an awaited step: a connect_device
\* that returned False falls through to "return False", an exception goes to
\* the except clause, which returns False
AfterStep(step, ok) ==
    IF ~ok THEN "returned"
    ELSE CASE step = "connect" -> "stabilize"
           [] step = "create_route" -> "volume"
           [] step = "set_volume" -> "returned"
           [] step = "disconnect" -> "returned"

\* the step is logged with its outcome, and the call goes on or returns
DeviceStep(step, ok, ret) ==
    /\ dlog' = Append(dlog, [step |-> step, ok |-> ok])
    /\ dpc' = AfterStep(step, ok)
    /\ dret' = IF dpc' = "returned" THEN ok /\ ret ELSE dret

\* handle_bluetooth_device(mac, action) is called; an action that is neither
\* connect nor disconnect returns False at once
DeviceCall ==
    /\ dpc = "idle"
    /\ dcount < MaxDeviceCalls
    /\ \E mac \in Sources, action \in DeviceActions :
         /\ darg' = <<mac, action>>
         /\ dpc' = IF action = "other" THEN "returned" ELSE action
    /\ dlog' = <<>>
    /\ dret' = FALSE
    /\ dmade' = {}
    /\ UNCHANGED <<volumes, dcount, routes, routeOrder, pwLinks>>
    /\ UNCHANGED nonDeviceVars

\* if await self.bluetooth.connect_device(mac): connect_device catches its
\* exceptions and returns a boolean
DeviceConnect ==
    /\ dpc = "connect"
    /\ \E ok \in BOOLEAN : DeviceStep("connect", ok, FALSE)
    /\ UNCHANGED <<volumes, darg, dmade, dcount, routes, routeOrder, pwLinks>>
    /\ UNCHANGED nonDeviceVars

\* await asyncio.sleep(2)
DeviceStabilize ==
    /\ dpc = "stabilize"
    /\ dpc' = "create"
    /\ UNCHANGED <<volumes, darg, dlog, dret, dmade, dcount, routes, routeOrder, pwLinks>>
    /\ UNCHANGED nonDeviceVars

\* route_id = await self.audio.create_route(mac, self.default_output)
DeviceCreateRoute ==
    /\ dpc = "create"
    /\ \E env \in Envs(CreateAttempts(World, darg[1], default_output), {}) :
         LET r == create_route(World, darg[1], default_output, env)
         IN /\ routes' = r.w.routes
            /\ routeOrder' = r.w.order
            /\ pwLinks' = r.w.backend
            /\ dmade' = IF r.exc = None THEN {r.rid} ELSE {}
            /\ DeviceStep("create_route", r.exc = None, FALSE)
    /\ UNCHANGED <<volumes, darg, dcount>>
    /\ UNCHANGED nonDeviceVars

\* await self.audio.set_volume(self.default_output, 0.7); return True
DeviceSetVolume ==
    /\ dpc = "volume"
    /\ \E env \in VolumeEnvs :
         LET v == set_volume(volumes, default_output, DefaultVolume, env)
         IN /\ volumes' = v.volumes
            /\ DeviceStep("set_volume", v.exc = None, TRUE)
    /\ UNCHANGED <<darg, dmade, dcount, routes, routeOrder, pwLinks>>
    /\ UNCHANGED nonDeviceVars

\* return await self.bluetooth.disconnect_device(mac)
DeviceDisconnect ==
    /\ dpc = "disconnect"
    /\ \E ok \in BOOLEAN : DeviceStep("disconnect", ok, TRUE)
    /\ UNCHANGED <<volumes, darg, dmade, dcount, routes, routeOrder, pwLinks>>
    /\ UNCHANGED nonDeviceVars

\* the call is over; the caller may handle another device
DeviceEnds ==
    /\ dpc = "returned"
    /\ dpc' = "idle"
    /\ dcount' = dcount + 1
    /\ UNCHANGED <<volumes, darg, dlog, dret, dmade, routes, routeOrder, pwLinks>>
    /\ UNCHANGED nonDeviceVars

NextDevice ==
    \/ DeviceCall
    \/ DeviceConnect
    \/ DeviceStabilize
    \/ DeviceCreateRoute
    \/ DeviceSetVolume
    \/ DeviceDisconnect
    \/ DeviceEnds

(***************************************************************************)
(* PTPSync after the election: the sampling round (_initial_sync),         *)
(* check_drift, realign and get_status of one node.  Each call is one      *)
(* step.  Offsets and rates are exact fractions [num, den] in lowest       *)
(* terms; time is counted in whole units and never runs backwards.         *)
(***************************************************************************)
MaxSyncCalls == 2
MaxTime == 3

\* the node whose PTPSync is followed
Self == "n1"

\* for _ in range(8)
SampleCount == 8

Abs(x) == IF x < 0 THEN -x ELSE x

RECURSIVE GCD(_, _)
GCD(a, b) == IF b = 0 THEN a ELSE GCD(b, a % b)

\* the fraction n / d, d > 0
Frac(n, d) == LET g == GCD(Abs(n), d) IN [num |-> n \div g, den |-> d \div g]

Zero == Frac(0, 1)

FracSub(a, b) == Frac(a.num * b.den - b.num * a.den, a.den * b.den)

\* a / t, t > 0
FracDiv(a, t) == Frac(a.num, a.den * t)

\* offset = ((t2 - t1) + (t3 - t4)) / 2
SampleOffset(t) == ((t[2] - t[1]) + (t[3] - t[4])) \div 2

\* what recvfrom returns for a sample: a well-formed sync_resp, a datagram that
\* does not start with sync_resp, or a sync_resp whose payload is not two
\* doubles (struct.unpack raises); or nothing, when no datagram arrives on the
\* socket (the socket is blocking: setup sets no timeout on it)
Response(t) == [kind |-> "sync_resp", offset |-> SampleOffset(t)]
Other == [kind |-> "other", offset |-> 0]
Malformed == [kind |-> "malformed", offset |-> 0]
Lost == [kind |-> "lost", offset |-> 0]

\* the call is inside self.socket.recvfrom(1024), which has not returned
Blocked == "blocked"

Rep(d, n) == [i \in 1..n |-> d]

\* how many samples of a round get a response with the stamps (0, 9, 11, 4),
\* (0, 11, 13, 4) and (0, 13, 15, 4): per-sample offsets 8, 10 and 12
RoundCounts ==
    {<<0, 0, 0>>, <<0, 1, 0>>, <<1, 2, 1>>, <<1, 0, 2>>, <<2, 1, 0>>, <<3, 3, 2>>,
     <<8, 0, 0>>, <<0, 0, 8>>, <<5, 3, 0>>}

\* the datagrams of one round of SampleCount samples: the responses, then the
\* datagrams that are no responses; or a malformed response to the first sample;
\* or the datagrams up to a sample for which none arrives
Rounds ==
    {Rep(Response(<<0, 9, 11, 4>>), n[1]) \o Rep(Response(<<0, 11, 13, 4>>), n[2])
       \o Rep(Response(<<0, 13, 15, 4>>), n[3])
       \o Rep(Other, SampleCount - (n[1] + n[2] + n[3])) : n \in RoundCounts}
    \cup {<<Malformed>> \o Rep(Other, SampleCount - 1)}
    \cup {<<Lost>>, Rep(Response(<<0, 9, 11, 4>>), 2) \o <<Lost>>}

CountsEverySample(data) == TRUE

\* if data.startswith(b"sync_resp"): the sample adds to offset_sum and samples
CountsSample(data) == data.kind = "sync_resp"

\* for _ in range(8): ... offset_sum += offset; samples += 1
RECURSIVE SampleLoop(_, _, _)
SampleLoop(datagrams, offset_sum, samples) ==
    IF datagrams = <<>>
    THEN [offset_sum |-> offset_sum, samples |-> samples, exc |-> None]
    ELSE IF Head(datagrams).kind = "malformed"
         THEN [offset_sum |-> offset_sum, samples |-> samples, exc |-> "struct.error"]
    ELSE IF Head(datagrams).kind = "lost"
         THEN [offset_sum |-> offset_sum, samples |-> samples, exc |-> Blocked]
    ELSE IF CountsSample(Head(datagrams))
         THEN SampleLoop(Tail(datagrams), offset_sum + Head(datagrams).offset, samples + 1)
    ELSE SampleLoop(Tail(datagrams), offset_sum, samples)

\* _initial_sync: if samples > 0: self.offset = offset_sum / samples
initial_sync(cur_offset, datagrams) ==
    LET r == SampleLoop(datagrams, 0, 0) IN
    [offset |-> IF r.exc = None /\ r.samples > 0 THEN Frac(r.offset_sum, r.samples)
                ELSE cur_offset,
     exc |-> r.exc]

get_status ==
    [is_master |-> master[Self], offset |-> offset, drift_rate |-> driftRate,
     last_sync |-> lastSync]

NeverSkipsSync(is_master) == FALSE

\* if self.master: return
SkipsSync(is_master) == is_master

DriftReversed(new_offset, old_offset) == FracSub(old_offset, new_offset)

\* drift = self.offset - old_offset
Drift(new_offset, old_offset) == FracSub(new_offset, old_offset)

\* drift / time_since_sync if time_since_sync > 0 else 0
DriftRate(drift, time_since_sync) ==
    IF time_since_sync > 0 THEN FracDiv(drift, time_since_sync) ELSE Zero

\* what is remembered of a PTPSync call: the call, the role of the node, whether
\* it ran a sampling round, and what it returned or raised (Blocked if it has
\* done neither)
Ended(op, is_master, round, exc, ret) ==
    [op |-> op, master |-> is_master, round |-> round, exc |-> exc, ret |-> ret]

\* __init__ of PTPSync; time.time() is some positive time
InitSync ==
    /\ offset = Zero
    /\ driftRate = Zero
    /\ lastSync = 0
    /\ now = 1
    /\ rpc = "new"
    /\ rround = <<>>
    /\ slast = Ended("init", FALSE, FALSE, None, Zero)
    /\ scount = 0

\* setup: self.master = await self._elect_master(); a slave runs the round, and
\* an exception in it leaves setup (and a PTPSync nobody calls)
SyncSetup ==
    /\ rpc = "new"
    /\ \E elected \in BOOLEAN :
         /\ master' = [master EXCEPT ![Self] = elected]
         /\ IF elected
            THEN /\ rpc' = "idle"
                 /\ slast' = Ended("setup", TRUE, FALSE, None, Zero)
                 /\ UNCHANGED <<offset, rround>>
            ELSE \E datagrams \in Rounds :
                   LET r == initial_sync(offset, datagrams)
                   IN /\ offset' = r.offset
                      /\ rround' = datagrams
                      /\ rpc' = CASE r.exc = None -> "idle"
                                   [] r.exc = Blocked -> "blocked"
                                   [] OTHER -> "failed"
                      /\ slast' = Ended("setup", FALSE, TRUE, r.exc, Zero)
    /\ UNCHANGED <<driftRate, lastSync, now, scount>>
    /\ UNCHANGED monitorVars
    /\ UNCHANGED nonSyncVars

\* check_drift: 0.0 at once on a master; otherwise old_offset = self.offset, the
\* round is run, the drift and the drift rate are computed and the drift is
\* returned; an exception in the round leaves check_drift
check_drift ==
    /\ rpc = "idle"
    /\ scount < MaxSyncCalls
    /\ scount' = scount + 1
    /\ IF SkipsSync(master[Self])
       THEN /\ slast' = Ended("check_drift", master[Self], FALSE, None, Zero)
            /\ UNCHANGED <<offset, driftRate, rround, rpc>>
       ELSE \E datagrams \in Rounds :
              LET old_offset == offset
                  r == initial_sync(offset, datagrams)
                  drift == Drift(r.offset, old_offset)
                  time_since_sync == now - lastSync
              IN /\ offset' = r.offset
                 /\ rround' = datagrams
                 /\ driftRate' = IF r.exc = None THEN DriftRate(drift, time_since_sync)
                                 ELSE driftRate
                 /\ slast' = Ended("check_drift", master[Self], TRUE, r.exc,
                                   IF r.exc = None THEN drift ELSE Zero)
                 /\ rpc' = IF r.exc = Blocked THEN "blocked" ELSE rpc
    /\ UNCHANGED <<lastSync, now, master>>
    /\ UNCHANGED nonSyncVars

\* realign: nothing on a master; otherwise the round is run and last_sync is
\* stamped; an exception in the round leaves realign before the stamp
realign ==
    /\ rpc = "idle"
    /\ scount < MaxSyncCalls
    /\ scount' = scount + 1
    /\ IF SkipsSync(master[Self])
       THEN /\ slast' = Ended("realign", master[Self], FALSE, None, Zero)
            /\ UNCHANGED <<offset, lastSync, rround, rpc>>
       ELSE \E datagrams \in Rounds :
              LET r == initial_sync(offset, datagrams)
              IN /\ offset' = r.offset
                 /\ rround' = datagrams
                 /\ lastSync' = IF r.exc = None THEN now ELSE lastSync
                 /\ slast' = Ended("realign", master[Self], TRUE, r.exc, Zero)
                 /\ rpc' = IF r.exc = Blocked THEN "blocked" ELSE rpc
    /\ UNCHANGED <<driftRate, now, master>>
    /\ UNCHANGED nonSyncVars

\* time passes
Tick ==
    /\ now < MaxTime
    /\ now' = now + 1
    /\ UNCHANGED <<offset, driftRate, lastSync, rpc, rround, slast, scount, master>>
    /\ UNCHANGED monitorVars
    /\ UNCHANGED nonSyncVars

\* a call of check_drift or realign on its own
CheckDriftCall == check_drift /\ UNCHANGED monitorVars

RealignCall == realign /\ UNCHANGED monitorVars

NextSync ==
    \/ SyncSetup
    \/ CheckDriftCall
    \/ RealignCall
    \/ Tick

(***************************************************************************)
(* NodeManager._monitor_sync over the PTPSync above: one iteration is the   *)
(* call of check_drift and, if the drift it returned is large, the call of *)
(* realign; an exception in either ends the iteration.                     *)
(***************************************************************************)
ExceedsSigned(drift) == drift.num * 10 > drift.den

\* if abs(drift) > 0.1
ExceedsThreshold(drift) == Abs(drift.num) * 10 > drift.den

\* what an iteration has done: whether check_drift returned, the drift it
\* returned, and whether realign was called
Iteration(returned, drift, realigned) ==
    [returned |-> returned, drift |-> drift, realigned |-> realigned]

InitMonitor ==
    /\ mpc = "sleep"
    /\ miter = Iteration(FALSE, Zero, FALSE)

\* drift = await self.sync.check_drift(); if abs(drift) > 0.1: ...
MonitorCheckDrift ==
    /\ mpc = "sleep"
    /\ check_drift
    /\ miter' = Iteration(slast'.exc = None, slast'.ret, FALSE)
    /\ mpc' = CASE slast'.exc = Blocked -> "blocked"
                [] slast'.exc = None /\ ExceedsThreshold(slast'.ret) -> "realign"
                [] OTHER -> "sleep"

\* await self.sync.realign(); then (or after except Exception) the sleep
MonitorRealign ==
    /\ mpc = "realign"
    /\ realign
    /\ miter' = [miter EXCEPT !.realigned = TRUE]
    /\ mpc' = IF slast'.exc = Blocked THEN "blocked" ELSE "sleep"

NextMonitor ==
    \/ SyncSetup
    \/ MonitorCheckDrift
    \/ MonitorRealign
    \/ Tick

(***************************************************************************)
(* The signal quality of BluetoothInterface.get_status and the iteration   *)
(* of NodeManager._monitor_bluetooth that reads it.  A device dict is a    *)
(* function on its keys; an Optional value is the empty set (None) or the  *)
(* set of the one value.                                                   *)
(***************************************************************************)
Macs == {"m1", "m2"}

\* what "RSSI:" lines of bluetoothctl info hold, around the -80 dBm limit
RssiValues == {-81, -80, -79}

\* dict.get(key)
Get(d, key) == IF key \in DOMAIN d THEN {d[key]} ELSE {}

\* dict.get(key, default)
GetOr(d, key, default) == IF key \in DOMAIN d THEN d[key] ELSE default

GoodFromLimit(device) == IF GetOr(device, "rssi", -100) >= -80 THEN "good" ELSE "poor"

\* "good" if device.get("rssi", -100) > -80 else "poor"
Quality(device) == IF GetOr(device, "rssi", -100) > -80 THEN "good" ELSE "poor"

\* the "signal_quality" entry of get_status: the connected devices
signal_quality(devs) ==
    [mac \in {m \in DOMAIN devs : GetOr(devs[m], "connected", FALSE)} |->
        [rssi |-> Get(devs[mac], "rssi"), quality |-> Quality(devs[mac])]]

\* quality["quality"] < 30: a str is not ordered against an int
BelowThirty(quality) ==
    IF quality \in {"good", "poor"}
    THEN [exc |-> "TypeError", ret |-> FALSE]
    ELSE [exc |-> None, ret |-> quality < 30]

\* what an iteration of _monitor_bluetooth did: the signal_quality it got, the
\* devices it logged a poor-signal warning for, the devices it handed to
\* _handle_poor_signal, and the exception its except clause logged
BIter(n, md, status, warned, handled, exc) ==
    [n |-> n, mode |-> md, status |-> status, warned |-> warned, handled |-> handled,
     exc |-> exc]

\* for mac, device in status["devices"].items(): ...
RECURSIVE PoorLoop(_, _, _, _)
PoorLoop(macs, status, md, acc) ==
    IF macs = <<>> THEN acc
    ELSE LET mac == Head(macs) IN
         IF mac \notin DOMAIN status THEN PoorLoop(Tail(macs), status, md, acc)
         ELSE LET c == BelowThirty(status[mac].quality) IN
              IF c.exc # None THEN [acc EXCEPT !.exc = c.exc]
              ELSE IF ~c.ret THEN PoorLoop(Tail(macs), status, md, acc)
              ELSE IF md = "distributed"
                   THEN PoorLoop(Tail(macs), status, md,
                                 [acc EXCEPT !.handled = @ \cup {mac}])
              ELSE PoorLoop(Tail(macs), status, md, [acc EXCEPT !.warned = @ \cup {mac}])

\* __init__: self.audio_devices = {}
InitSignal ==
    /\ audioDevices = <<>>
    /\ deviceOrder = <<>>
    /\ biter = BIter(0, None, <<>>, {}, {}, None)

\* scan_devices: self.audio_devices[mac] = {**devices[mac], **info}, with
\* "connected": False from _parse_bluetoothctl_devices
ScanDevices(mac) ==
    /\ audioDevices' = [m \in DOMAIN audioDevices \cup {mac} |->
                          IF m = mac THEN [connected |-> FALSE] ELSE audioDevices[m]]
    /\ deviceOrder' = IF mac \in DOMAIN audioDevices THEN deviceOrder
                      ELSE Append(deviceOrder, mac)
    /\ UNCHANGED biter
    /\ UNCHANGED nonSignalVars

\* connect_device / disconnect_device: if mac in self.audio_devices:
\* self.audio_devices[mac]["connected"] = True / False
SetConnected(mac, connected) ==
    /\ mac \in DOMAIN audioDevices
    /\ audioDevices[mac].connected # connected
    /\ audioDevices' = [audioDevices EXCEPT ![mac] =
                          [k \in DOMAIN @ |-> IF k = "connected" THEN connected ELSE @[k]]]
    /\ UNCHANGED <<deviceOrder, biter>>
    /\ UNCHANGED nonSignalVars

\* monitor_signal_strength that found an "RSSI:" line: if mac in
\* self.audio_devices: self.audio_devices[mac]["rssi"] = rssi (without such a
\* line, or when the call raises, nothing is stored)
monitor_signal_strength(mac, rssi) ==
    /\ mac \in DOMAIN audioDevices
    /\ Get(audioDevices[mac], "rssi") # {rssi}
    /\ audioDevices' = [audioDevices EXCEPT ![mac] =
                          [k \in DOMAIN @ \cup {"rssi"} |-> IF k = "rssi" THEN rssi ELSE @[k]]]
    /\ UNCHANGED <<deviceOrder, biter>>
    /\ UNCHANGED nonSignalVars

\* one iteration of _monitor_bluetooth, from the return of get_status to the
\* sleep; the loop does not suspend before _handle_poor_signal
MonitorBluetooth ==
    /\ LET status == signal_quality(audioDevices)
       IN biter' = PoorLoop(deviceOrder, status, mode,
                            BIter(1, mode, status, {}, {}, None))
    /\ UNCHANGED <<audioDevices, deviceOrder>>
    /\ UNCHANGED nonSignalVars

NextSignal ==
    \/ \E mac \in Macs : ScanDevices(mac)
    \/ \E mac \in Macs, connected \in BOOLEAN : SetConnected(mac, connected)
    \/ \E mac \in Macs, rssi \in RssiValues : monitor_signal_strength(mac, rssi)
    \/ MonitorBluetooth

(***************************************************************************)
(* AudioInterface.set_volume, get_volume and cleanup (SpecVolume).  The    *)
(* object is given routes by create_route calls that the backend serves,   *)
(* volumes by set_volume calls, and is then cleaned up once.               *)
(***************************************************************************)
MaxVolumeCalls == 2
MaxVolumeRoutes == 2

\* the volumes callers ask for, in tenths: below the range, its two ends, above
VolumeArgs == {-1, 0, 10, 11}

\* what the backend answers to a get_volume: wpctl exits 0 and prints a number;
\* wpctl exits 0 and its last word is not a number ("Volume: 0.40 [MUTED]");
\* wpctl exits non-zero and pw-dump lists the device with a volume; pw-dump
\* prints JSON without a volume for the device; pw-dump prints no JSON; a
\* process cannot be spawned
GetKinds == {"wpctl", "wpctl_unparsable", "pwdump_volume", "pwdump_other", "pwdump_fails",
             "raises"}
BackendVolumes == {4}
GetEnvs == [kind : GetKinds, value : BackendVolumes]

get_volume(vols, device, env) ==
    CASE env.kind = "wpctl" -> env.value
      [] env.kind = "wpctl_unparsable" -> 0
      [] env.kind = "pwdump_volume" -> env.value
      [] env.kind = "pwdump_other" -> IF device \in DOMAIN vols THEN vols[device] ELSE 0
      [] env.kind = "pwdump_fails" -> 0
      [] env.kind = "raises" -> 0

\* the links of every route, in the order cleanup's two for loops visit them
RECURSIVE RecordedLinks(_, _)
RecordedLinks(order, rts) ==
    IF order = <<>> THEN <<>>
    ELSE rts[Head(order)].links \o RecordedLinks(Tail(order), rts)

\* for device in self.volumes
RECURSIVE DevicesOf(_)
DevicesOf(S) ==
    IF S = {} THEN <<>>
    ELSE LET d == CHOOSE d \in S : TRUE IN <<d>> \o DevicesOf(S \ {d})

CleanupCall(call, link, device) == [call |-> call, link |-> link, device |-> device]

\* the backend calls cleanup is to make: pw-link -d for every recorded link,
\* then set_volume(device, 0) for every cached device
CleanupWork(w, vols) ==
    LET links == RecordedLinks(w.order, w.routes)
        devs == DevicesOf(DOMAIN vols)
    IN [i \in 1..Len(links) |-> CleanupCall("unlink", links[i], None)]
       \o [i \in 1..Len(devs) |-> CleanupCall("set_volume", <<>>, devs[i])]

\* what the backend does during a cleanup: the pw-link -d that cannot be
\* spawned, the ones that exit non-zero, and how each set_volume goes
CleanupEnvs(links, devs) ==
    [raise : {{}} \cup {{l} : l \in links}, ufail : {{}},
     vol : [devs -> {"wpctl", "wpctl_raises"}]]
    \cup [raise : {{}}, ufail : {links}, vol : [devs -> {"wpctl"}]]

StopAtFailure(work, failed) == IF failed THEN <<>> ELSE Tail(work)

\* except Exception as e: self.logger.error(...) inside each loop: the loop
\* goes on with the next link or device
NextCall(work, failed) == Tail(work)

RECURSIVE CleanupLoop(_, _, _)
CleanupLoop(st, work, env) ==
    IF work = <<>> THEN st
    ELSE LET c == Head(work)
             v == set_volume(st.volumes, c.device, 0, env.vol[c.device])
             failed == IF c.call = "unlink" THEN c.link \in env.raise ELSE v.exc # None
             unlinked == c.call = "unlink" /\ c.link \notin env.raise \cup env.ufail
             st1 == [backend |-> IF unlinked THEN st.backend \ {c.link} ELSE st.backend,
                     volumes |-> IF c.call = "set_volume" THEN v.volumes ELSE st.volumes,
                     log |-> Append(st.log, c)]
         IN CleanupLoop(st1, NextCall(work, failed), env)

cleanup(w, vols, env) ==
    CleanupLoop([backend |-> w.backend, volumes |-> vols, log |-> <<>>],
                CleanupWork(w, vols), env)

VCall(op, device, volume, env, exc, ret, calls, same, log) ==
    [op |-> op, device |-> device, volume |-> volume, env |-> env, exc |-> exc,
     ret |-> ret, calls |-> calls, same |-> same, log |-> log]

\* __init__ of AudioInterface, no call made
InitVolume ==
    /\ vlast = VCall("none", None, 0, None, None, 0, 0, TRUE, <<>>)
    /\ vcount = 0
    /\ vpc = "live"

SetVolume ==
    /\ vpc = "live"
    /\ vcount < MaxVolumeCalls
    /\ \E device \in KnownTargets, volume \in VolumeArgs, env \in VolumeEnvs :
           LET r == set_volume(volumes, device, volume, env)
           IN /\ volumes' = r.volumes
              /\ vlast' = VCall("set_volume", device, volume, env, r.exc, 0, r.calls,
                                r.volumes = volumes, <<>>)
    /\ vcount' = vcount + 1
    /\ UNCHANGED <<vpc, routes, routeOrder, pwLinks>>
    /\ UNCHANGED nonVolumeVars

GetVolume ==
    /\ vpc = "live"
    /\ vcount < MaxVolumeCalls
    /\ \E device \in KnownTargets, env \in GetEnvs :
           vlast' = VCall("get_volume", device, 0, env, None,
                          get_volume(volumes, device, env), 0, TRUE, <<>>)
    /\ vcount' = vcount + 1
    /\ UNCHANGED <<volumes, vpc, routes, routeOrder, pwLinks>>
    /\ UNCHANGED nonVolumeVars

\* a create_route that the backend serves
RouteCreated ==
    /\ vpc = "live"
    /\ Cardinality(DOMAIN routes) < MaxVolumeRoutes
    /\ \E source \in Sources, target \in KnownTargets :
           LET r == create_route(World, source, target, NoEnv)
           IN /\ routes' = r.w.routes
              /\ routeOrder' = r.w.order
              /\ pwLinks' = r.w.backend
    /\ UNCHANGED <<volumes, vlast, vcount, vpc>>
    /\ UNCHANGED nonVolumeVars

Cleanup ==
    /\ vpc = "live"
    /\ \E env \in CleanupEnvs(SeqToSet(RecordedLinks(routeOrder, routes)), DOMAIN volumes) :
           LET r == cleanup(World, volumes, env)
           IN /\ pwLinks' = r.backend
              /\ volumes' = r.volumes
              /\ vlast' = VCall("cleanup", None, 0, env, None, 0, Len(r.log),
                                r.volumes = volumes, r.log)
    /\ vpc' = "cleaned"
    /\ UNCHANGED <<vcount, routes, routeOrder>>
    /\ UNCHANGED nonVolumeVars

NextVolume ==
    \/ SetVolume
    \/ GetVolume
    \/ RouteCreated
    \/ Cleanup

(***************************************************************************)
(* AudioInterface.discover_devices (SpecDiscover): one step per pw-dump    *)
(* query of the retry loop.                                                *)
(***************************************************************************)
\* retry_count = 3
RetryCount == 3

\* the sinks one query stores in devices: all the sinks of the dump when the
\* attempt does not raise, the sinks stored before the exception when it does
\* (none when pw-dump cannot be spawned or prints no JSON)
SinkTables == {<<>>, [A |-> 1], [A |-> 1, B |-> 2]}
QueryOutcomes == [sinks : SinkTables, raises : BOOLEAN]

\* __init__ of AudioInterface (self.outputs = {}), no call made
InitDiscover ==
    /\ devices = <<>>
    /\ retryCount = 0
    /\ attempts = <<>>
    /\ qpc = "idle"

\* devices = {}; retry_count = 3
DiscoverCall ==
    /\ qpc = "idle"
    /\ devices' = <<>>
    /\ retryCount' = RetryCount
    /\ attempts' = <<>>
    /\ qpc' = "loop"
    /\ UNCHANGED outputs
    /\ UNCHANGED nonDiscoverVars

\* one pass of while retry_count > 0, with the statements after the loop when
\* the pass leaves it
Query ==
    /\ qpc = "loop"
    /\ retryCount > 0
    /\ \E o \in QueryOutcomes :
         LET devices1 == o.sinks @@ devices
             left == retryCount - 1
         IN /\ attempts' = Append(attempts, o)
            /\ devices' = devices1
            /\ IF o.raises
               THEN /\ retryCount' = left
                    /\ qpc' = IF left > 0 THEN "loop" ELSE "raised"
                    /\ UNCHANGED outputs
               ELSE IF devices1 # <<>>
               THEN /\ qpc' = "returned"
                    /\ outputs' = devices1
                    /\ UNCHANGED retryCount
               ELSE /\ retryCount' = left
                    /\ qpc' = IF left > 0 THEN "loop" ELSE "returned"
                    /\ outputs' = IF left > 0 THEN outputs ELSE devices1
    /\ UNCHANGED nonDiscoverVars

NextDiscover ==
    \/ DiscoverCall
    \/ Query

(***************************************************************************)
(* BluetoothInterface.connect_device (SpecConnect): one step per await or  *)
(* blocking call, with the lines of bluetoothctl --monitor arriving from   *)
(* outside.                                                                *)
(***************************************************************************)
MaxNotes == 2

\* the lines bluetoothctl --monitor writes
Lines == {"Pairing successful", "Failed to pair", "other"}

InitConnect ==
    /\ cpc = "idle"
    /\ cmac = None
    /\ notes = <<>>
    /\ nnotes = 0
    /\ pairOver = FALSE
    /\ cret = FALSE

Returns(ret) ==
    /\ cpc' = "returned"
    /\ cret' = ret

\* connect_device(mac): bluetoothctl --monitor is spawned
ConnectCall ==
    /\ cpc \in {"idle", "returned"}
    /\ \E mac \in Sources : cmac' = mac
    /\ notes' = <<>>
    /\ pairOver' = FALSE
    /\ \E ok \in BOOLEAN : IF ok THEN cpc' = "prepare" /\ UNCHANGED cret ELSE Returns(FALSE)
    /\ UNCHANGED nnotes
    /\ UNCHANGED nonConnectVars

\* bluetoothctl remove and trust with check=True, then bluetoothctl pair is
\* spawned; an exception ends the call with False
Prepare ==
    /\ cpc = "prepare"
    /\ \E ok \in BOOLEAN : IF ok THEN cpc' = "monitor" /\ UNCHANGED cret ELSE Returns(FALSE)
    /\ UNCHANGED <<cmac, notes, nnotes, pairOver>>
    /\ UNCHANGED nonConnectVars

\* one pass of while True: readline returns the next line of the monitor
ReadLine ==
    /\ cpc = "monitor"
    /\ notes # <<>>
    /\ notes' = Tail(notes)
    /\ CASE Head(notes) = "Pairing successful" -> cpc' = "pairing" /\ UNCHANGED cret
         [] Head(notes) = "Failed to pair" -> Returns(FALSE)
         [] OTHER -> UNCHANGED <<cpc, cret>>
    /\ UNCHANGED <<cmac, nnotes, pairOver>>
    /\ UNCHANGED nonConnectVars

\* asyncio.wait_for(proc.communicate(), timeout=30.0): the pair process exits
\* with 0, exits with another code, or the timeout expires
AwaitPair ==
    /\ cpc = "pairing"
    /\ \E end \in {"zero", "nonzero", "timeout"} :
         IF end = "zero" THEN cpc' = "connect" /\ UNCHANGED cret ELSE Returns(FALSE)
    /\ UNCHANGED <<cmac, notes, nnotes, pairOver>>
    /\ UNCHANGED nonConnectVars

\* bluetoothctl connect: True if it printed "Connection successful"
Connect ==
    /\ cpc = "connect"
    /\ \E ok \in BOOLEAN : Returns(ok)
    /\ UNCHANGED <<cmac, notes, nnotes, pairOver>>
    /\ UNCHANGED nonConnectVars

\* the steps of the call itself
ConnectStep == Prepare \/ ReadLine \/ AwaitPair \/ Connect

\* bluetoothctl --monitor writes a line
Notify ==
    /\ cpc \in {"prepare", "monitor", "pairing", "connect"}
    /\ nnotes < MaxNotes
    /\ \E line \in Lines : notes' = Append(notes, line)
    /\ nnotes' = nnotes + 1
    /\ UNCHANGED <<cpc, cmac, pairOver, cret>>
    /\ UNCHANGED nonConnectVars

\* 30 s have passed since the call began
PairTimePasses ==
    /\ cpc \in {"prepare", "monitor", "pairing", "connect"}
    /\ ~pairOver
    /\ pairOver' = TRUE
    /\ UNCHANGED <<cpc, cmac, notes, nnotes, cret>>
    /\ UNCHANGED nonConnectVars

NextConnect ==
    \/ ConnectCall
    \/ ConnectStep
    \/ Notify
    \/ PairTimePasses

(***************************************************************************)
(* repair_route on a table of several routes (SpecRepair): the table is    *)
(* built by create_route and add_output_to_route calls that the backend    *)
(* serves, and routes of it are then repaired with every outcome of the    *)
(* backend.                                                                *)
(***************************************************************************)
MaxBuiltRoutes == 2

\* a create_route that the backend serves
RouteBuilt ==
    /\ nops = 0
    /\ Cardinality(DOMAIN routes) < MaxBuiltRoutes
    /\ \E source \in Sources, target \in KnownTargets :
           LET r == create_route(World, source, target, NoEnv)
           IN /\ routes' = r.w.routes
              /\ routeOrder' = r.w.order
              /\ pwLinks' = r.w.backend
              /\ lastOp' = Record("create", source, target, r, NoEnv)
    /\ UNCHANGED <<outputs, nops, nexternal>>
    /\ UNCHANGED nonRouteVars

\* an add_output_to_route that the backend serves
OutputBuilt ==
    /\ nops = 0
    /\ \E source \in Sources, new_target \in KnownTargets :
           LET r == add_output_to_route(World, source, new_target, NoEnv)
           IN /\ r.exc = None
              /\ routes' = r.w.routes
              /\ routeOrder' = r.w.order
              /\ pwLinks' = r.w.backend
              /\ lastOp' = Record("add", source, new_target, r, NoEnv)
    /\ UNCHANGED <<outputs, nops, nexternal>>
    /\ UNCHANGED nonRouteVars

NextRepair ==
    \/ RouteBuilt
    \/ OutputBuilt
    \/ RepairRoute

(***************************************************************************)
(* Tasks of one event loop on one AudioInterface: two calls of             *)
(* add_output_to_route, a call of get_status, and create_route calls.  A   *)
(* step runs a call from one suspension (await) to the next; the backend   *)
(* serves every call.                                                      *)
(***************************************************************************)
AddCalls == {"a", "b"}

InitTasks ==
    /\ apc = [c \in AddCalls |-> "idle"]
    /\ aarg = [c \in AddCalls |-> [source |-> None, target |-> None, rid |-> NoRoute]]
    /\ gpc = "idle"
    /\ gsize = 0
    /\ gpos = 0
    /\ gstart = <<>>
    /\ ghealth = <<>>

\* add_output_to_route up to its first await: the route is looked up, and the
\* call goes on to the first pw-link only if new_target is not in its outputs
AddBegin(c, source, new_target) ==
    /\ apc[c] = "idle"
    /\ LET route_id == FirstRouteOf(routeOrder, source)
       IN /\ aarg' = [aarg EXCEPT ![c] = [source |-> source, target |-> new_target,
                                          rid |-> route_id]]
          /\ apc' = [apc EXCEPT ![c] =
                       IF route_id = NoRoute THEN "raised"
                       ELSE IF AlreadyAdded(routes[route_id], new_target) THEN "returned"
                       ELSE "link_FL"]
    /\ UNCHANGED <<routes, pwLinks, gpc, gsize, gpos, gstart, ghealth>>
    /\ UNCHANGED nonTaskVars

\* the first pw-link has ended: the second is spawned
AddLinkedLeft(c) ==
    /\ apc[c] = "link_FL"
    /\ LET links == AddLinks(aarg[c].source, aarg[c].target)
       IN pwLinks' = PwLinkAll(pwLinks, <<links[1]>>, NoEnv).backend
    /\ apc' = [apc EXCEPT ![c] = "link_FR"]
    /\ UNCHANGED <<routes, aarg, gpc, gsize, gpos, gstart, ghealth>>
    /\ UNCHANGED nonTaskVars

\* the second pw-link has ended: route["outputs"].append(new_target) and
\* route["links"].extend([...]), on the route read before the awaits
AddLinkedRight(c) ==
    /\ apc[c] = "link_FR"
    /\ LET links == AddLinks(aarg[c].source, aarg[c].target)
       IN /\ pwLinks' = PwLinkAll(pwLinks, <<links[2]>>, NoEnv).backend
          /\ routes' = [routes EXCEPT ![aarg[c].rid] =
                          [@ EXCEPT !.outputs = Append(@, aarg[c].target),
                                    !.links = @ \o links]]
    /\ apc' = [apc EXCEPT ![c] = "returned"]
    /\ UNCHANGED <<aarg, gpc, gsize, gpos, gstart, ghealth>>
    /\ UNCHANGED nonTaskVars

\* get_status up to its first await: for route_id in self.routes begins, and
\* with a key the call is suspended in verify_route
StatusBegin ==
    /\ gpc = "idle"
    /\ gstart' = routeOrder
    /\ gsize' = Len(routeOrder)
    /\ ghealth' = <<>>
    /\ IF routeOrder = <<>>
       THEN gpc' = "returned" /\ gpos' = 0
       ELSE gpc' = "verify" /\ gpos' = 1
    /\ UNCHANGED <<routes, pwLinks, apc, aarg>>
    /\ UNCHANGED nonTaskVars

\* verify_route has returned: its result is stored, and the for loop asks the
\* dict iterator for the next key, which raises RuntimeError (dictionary
\* changed size during iteration) if the dict has another size than when
\* the loop began
StatusVerified ==
    /\ gpc = "verify"
    /\ ghealth' = (routeOrder[gpos] :> verify_route(World, routeOrder[gpos])) @@ ghealth
    /\ IF Len(routeOrder) # gsize
       THEN gpc' = "raised" /\ UNCHANGED gpos
       ELSE IF gpos = Len(routeOrder)
            THEN gpc' = "returned" /\ UNCHANGED gpos
       ELSE gpc' = "verify" /\ gpos' = gpos + 1
    /\ UNCHANGED <<routes, pwLinks, apc, aarg, gsize, gstart>>
    /\ UNCHANGED nonTaskVars

\* a create_route from another task for a route id that is not in the table
\* (a new key of self.routes)
RouteAdded == RouteBuilt /\ Len(routeOrder') > Len(routeOrder)

NextTasks ==
    \/ RouteAdded
    \/ \E c \in AddCalls, source \in Sources, new_target \in KnownTargets :
           AddBegin(c, source, new_target)
    \/ \E c \in AddCalls : AddLinkedLeft(c)
    \/ \E c \in AddCalls : AddLinkedRight(c)
    \/ StatusBegin
    \/ StatusVerified

(***************************************************************************)
(* The specifications: each subsystem runs with the others at rest.        *)
(***************************************************************************)
RestRoute == InitRoute /\ outputs = [A |-> 1, B |-> 2]
RestElect == InitElect /\ ids = [n \in Nodes |-> 3]
RestNode == InitNode /\ mode = "standalone" /\ ~py37
RestExtra == InitMonitor /\ InitSignal /\ InitTasks
RestLater == InitVolume /\ InitDiscover /\ InitConnect /\ RestExtra
RestOthers == InitHandoff /\ InitDevice /\ InitSync /\ RestLater

InitRouteSpec == InitRoute /\ RestElect /\ RestNode /\ RestOthers
InitElectSpec == InitElect /\ RestRoute /\ RestNode /\ RestOthers
InitNodeSpec == InitNode /\ RestRoute /\ RestElect /\ RestOthers
InitHandoffSpec ==
    InitHandoff /\ RestRoute /\ RestElect /\ RestNode /\ InitDevice /\ InitSync /\ RestLater
InitDeviceSpec ==
    /\ InitDevice
    /\ outputs \in DeviceTables
    /\ NoRoutes
    /\ RestElect /\ RestNode /\ InitHandoff /\ InitSync /\ RestLater
InitSyncSpec ==
    InitSync /\ RestRoute /\ RestElect /\ RestNode /\ InitHandoff /\ InitDevice /\ RestLater

SpecRoute == InitRouteSpec /\ [][NextRoute]_vars

SpecElect == InitElectSpec /\ [][NextElect]_vars

SpecNode == InitNodeSpec /\ [][NextNode]_vars

SpecHandoff == InitHandoffSpec /\ [][NextHandoff]_vars

SpecDevice == InitDeviceSpec /\ [][NextDevice]_vars

SpecSync == InitSyncSpec /\ [][NextSync]_vars

SpecMonitor == InitSyncSpec /\ [][NextMonitor]_vars

InitSignalSpec ==
    /\ InitNode /\ ~py37
    /\ RestRoute /\ RestElect /\ RestOthers

SpecSignal == InitSignalSpec /\ [][NextSignal]_vars

InitRepairSpec == InitRoute /\ RestElect /\ RestNode /\ RestOthers

SpecRepair == InitRepairSpec /\ [][NextRepair]_vars

SpecTasks == InitRepairSpec /\ [][NextTasks]_vars

InitVolumeSpec ==
    /\ InitVolume
    /\ InitRoute
    /\ RestElect /\ RestNode /\ InitHandoff /\ InitDevice /\ InitSync
    /\ InitDiscover /\ InitConnect /\ RestExtra

SpecVolume == InitVolumeSpec /\ [][NextVolume]_vars

InitDiscoverSpec ==
    /\ InitDiscover
    /\ outputs = <<>>
    /\ NoRoutes
    /\ RestElect /\ RestNode /\ InitHandoff /\ InitDevice /\ InitSync
    /\ InitVolume /\ InitConnect /\ RestExtra

SpecDiscover == InitDiscoverSpec /\ [][NextDiscover]_vars

InitConnectSpec ==
    /\ InitConnect
    /\ RestRoute /\ RestElect /\ RestNode /\ InitHandoff /\ InitDevice /\ InitSync
    /\ InitVolume /\ InitDiscover /\ RestExtra

SpecConnect == InitConnectSpec /\ [][NextConnect]_vars

(***************************************************************************)
(* Properties of the routing engine (SpecRoute).                           *)
(***************************************************************************)
HasLink(route, target, ch) == Link(route.source, target, ch) \in SeqToSet(route.links)

\* a routing call was the last thing to happen and returned without raising
Returned(op) == lastOp.op = op /\ lastOp.exc = None

\* C1: every target of every route has a recorded FL link, and a recorded FR
\* link if and only if the target is not mono (channel count > 1).
C1_MonoPolicy ==
    \A rid \in DOMAIN routes : \A t \in SeqToSet(routes[rid].outputs) :
        t \in DOMAIN outputs =>
            /\ HasLink(routes[rid], t, "FL")
            /\ HasLink(routes[rid], t, "FR") <=> outputs[t] > 1

\* C2: a create_route that returns records exactly the FL link for a target
\* with one channel, and exactly the FL and FR links for one with more.
C2_CreateLinkCount ==
    Returned("create") =>
        LET links == routes[lastOp.rid].links
            fl == Link(lastOp.source, lastOp.target, "FL")
            fr == Link(lastOp.source, lastOp.target, "FR")
        IN /\ outputs[lastOp.target] = 1 => links = <<fl>>
           /\ outputs[lastOp.target] > 1 => links = <<fl, fr>>

C2_Witness ==
    /\ Returned("create")
    /\ outputs[lastOp.target] = 1
    /\ Len(routes[lastOp.rid].links) = 1

\* C3: verify_route called right after a create_route or add_output_to_route
\* that returned without error returns true for that route.
C3_VerifyAfterSuccess ==
    (Returned("create") \/ Returned("add")) => verify_route(World, lastOp.rid)

C5_AddOutputIdempotent ==
    [][(lastOp'.op = "add" /\ nops' = nops + 1 /\ lastOp'.preMember) =>
          /\ lastOp'.exc = None
          /\ routes' = routes
          /\ routeOrder' = routeOrder
          /\ pwLinks' = pwLinks]_vars

C5_Witness ==
    /\ Returned("add") /\ lastOp.preMember
    /\ Len(routes[lastOp.rid].outputs) >= 2

\* C6: a create_route that returns leaves the targets and links of every
\* route that was in the table for the same source as they were.
C6_CreateKeepsRoutes ==
    [][(lastOp'.op = "create" /\ nops' = nops + 1 /\ lastOp'.exc = None) =>
          \A rid \in DOMAIN routes :
              rid[1] = lastOp'.source =>
                  /\ routes'[rid].outputs = routes[rid].outputs
                  /\ routes'[rid].links = routes[rid].links]_vars

\* C20: a create_route whose target is not in the output table raises
\* ValueError (UnknownTarget), asks for no pw-link process, and leaves the route
\* table and the graph as they were.
C20_UnknownTargetRejected ==
    (lastOp.op = "create" /\ lastOp.target \notin DOMAIN outputs) =>
        /\ lastOp.exc = "ValueError"
        /\ lastOp.calls = 0
        /\ lastOp.same

C20_Witness ==
    /\ lastOp.op = "create" /\ lastOp.target = "X"
    /\ lastOp.exc = "ValueError"
    /\ routes # <<>>

\* C21: an add_output_to_route for a source that has no route in the table
\* raises ValueError (NoRouteForSource), asks for no pw-link process, and leaves
\* the route table and the graph as they were.  (No call removes a route or
\* gives one to a source except create_route, so the source has no route
\* after the call exactly if it had none before.)
C21_NoRouteForSourceRejected ==
    (lastOp.op = "add" /\ ~\E rid \in DOMAIN routes : rid[1] = lastOp.source) =>
        /\ lastOp.exc = "ValueError"
        /\ lastOp.calls = 0
        /\ lastOp.same

C21_Witness ==
    /\ lastOp.op = "add" /\ lastOp.source = "s2"
    /\ lastOp.exc = "ValueError"
    /\ DOMAIN routes = {RouteId("s1", "A")}

\* C23: after an add_output_to_route of a new target during which a pw-link
\* call failed, the target is not among the route's targets and no link for
\* it is recorded on the route.
C23_FailedAddLeavesTargetAbsent ==
    (lastOp.op = "add" /\ lastOp.rid # NoRoute /\ ~lastOp.preMember /\ ~lastOp.envOk) =>
        /\ lastOp.target \notin SeqToSet(routes[lastOp.rid].outputs)
        /\ \A l \in SeqToSet(routes[lastOp.rid].links) : l[2] # lastOp.target

C39_TargetsAreKnown ==
    \A rid \in DOMAIN routes :
        /\ \A t \in SeqToSet(routes[rid].outputs) : t \in DOMAIN outputs
        /\ \A l \in SeqToSet(routes[rid].links) : l[2] \in DOMAIN outputs

(***************************************************************************)
(* Properties of the master election (SpecElect).                          *)
(***************************************************************************)
DistinctIds == \A n, m \in Nodes : n # m => ids[n] # ids[m]

\* node n finished its election having observed the id of every other node
SawAllPeers(n) == epc[n] = "done" /\ otherIds[n] = {ids[m] : m \in Nodes \ {n}}

C8_ElectionEndsAfterWindow ==
    \A n \in Nodes :
        (epc[n] \in {"loop", "recv"} /\ elapsed[n] /\ otherIds[n] = {}
         /\ inbox[n] = {}) => ENABLED ElectStep(n)

\* C17: an election that observed an id equal to the node's own does not end
\* with the node given a role: it reports the misconfiguration instead.
C17_TieIsFatal ==
    \A n \in Nodes : epc[n] = "done" => ids[n] \notin otherIds[n]

(***************************************************************************)
(* Properties of the sampling round, check_drift and realign (SpecSync).   *)
(***************************************************************************)
\* the per-sample offsets of the responses received in a round
RECURSIVE ResponseOffsets(_)
ResponseOffsets(datagrams) ==
    IF datagrams = <<>> THEN <<>>
    ELSE IF Head(datagrams).kind = "sync_resp"
         THEN <<Head(datagrams).offset>> \o ResponseOffsets(Tail(datagrams))
    ELSE ResponseOffsets(Tail(datagrams))

RECURSIVE Sum(_)
Sum(q) == IF q = <<>> THEN 0 ELSE Head(q) + Sum(Tail(q))

\* the last PTPSync call ran a sampling round to its end
RoundDone == slast.round /\ slast.exc = None

\* a step that is a PTPSync call running a sampling round to its end
RoundStep == slast' # slast /\ slast'.round /\ slast'.exc = None

\* C13: after a round in which k >= 1 samples got a response, the offset is the
\* sum of the k per-sample offsets divided by k; the other samples count for
\* nothing.
C13_OffsetIsMean ==
    LET got == ResponseOffsets(rround) IN
    (RoundDone /\ Len(got) >= 1) => offset = Frac(Sum(got), Len(got))

C13_Witness ==
    /\ RoundDone
    /\ ResponseOffsets(rround) = <<8, 10, 10, 12>>
    /\ offset = Frac(10, 1)

\* C14: a round in which no sample got a response leaves the offset as it was,
\* raises nothing, and shows in the sync status: when the round before it (if
\* any) had not failed, the status after it is not the status before it.
C14_ZeroSamplesReported ==
    [][(RoundStep /\ ResponseOffsets(rround') = <<>>
        /\ ~(RoundDone /\ ResponseOffsets(rround) = <<>>)) =>
          /\ offset' = offset
          /\ get_status' # get_status]_vars

\* C15: check_drift on a master returns 0, and neither check_drift nor realign
\* on a master changes the offset, the drift rate or last_sync, whatever was
\* called before and however much time has passed.
C15_MasterKeepsClock ==
    [][(scount' = scount + 1 /\ master[Self]) =>
          /\ slast'.exc = None
          /\ slast'.ret = Zero
          /\ get_status' = get_status]_vars

C15_Witness ==
    /\ slast.op = "check_drift" /\ slast.master
    /\ scount = MaxSyncCalls
    /\ now > 1

\* C16: check_drift on a slave runs the round, returns the offset after it
\* minus the offset before it, and sets the drift rate to that change divided
\* by the time since last_sync, or to 0 when no time has passed since.
C16_SlaveDrift ==
    [][(scount' = scount + 1 /\ slast'.op = "check_drift" /\ ~master[Self]
        /\ slast'.exc = None) =>
          /\ slast'.round
          /\ slast'.ret = FracSub(offset', offset)
          /\ driftRate' = IF now - lastSync = 0 THEN Zero
                          ELSE FracDiv(slast'.ret, now - lastSync)]_vars

C16_Witness ==
    /\ slast.op = "check_drift" /\ ~slast.master /\ RoundDone
    /\ lastSync = 1 /\ now = 3
    /\ offset = Frac(32, 3)
    /\ slast.ret = Frac(-4, 3)
    /\ driftRate = Frac(-2, 3)

(***************************************************************************)
(* Properties of the node orchestrator (SpecNode, SpecHandoff, SpecDevice).*)
(***************************************************************************)
\* C9: once a call of stop has returned, every monitor task it cancelled has
\* terminated, and none of them begins another iteration.
C9_StopAwaitsMonitors ==
    \A c \in StopCalls :
        spc[c] = "returned" =>
            /\ \A t \in stopSaw[c] : task[t] = "done"
            /\ lateIter = {}

PhaseOrder == <<"prepare", "transfer", "finalize">>

\* C10: the phases run in the order prepare, transfer, finalize, each only
\* after the one before it succeeded; after a failed transfer or finalize the
\* rollback is the next and last phase; there is no rollback when all three
\* succeeded.
C10_HandoffPhases ==
    /\ \A i \in 1..Len(hlog) :
           hlog[i].phase # "rollback" =>
               /\ i <= Len(PhaseOrder)
               /\ hlog[i].phase = PhaseOrder[i]
               /\ \A j \in 1..(i - 1) : hlog[j].phase # "rollback" /\ hlog[j].ok
    /\ \A i \in 1..Len(hlog) :
           (hlog[i].phase \in {"transfer", "finalize"} /\ ~hlog[i].ok) =>
               \/ i = Len(hlog) /\ hpc = "rollback"
               \/ i + 1 = Len(hlog) /\ hlog[i + 1].phase = "rollback"
    /\ (\E i \in 1..Len(hlog) : hlog[i].phase = "rollback") =>
           \E j \in 1..Len(hlog) : hlog[j].phase # "rollback" /\ ~hlog[j].ok

C10_Witness ==
    /\ hpc = "returned"
    /\ hlog = <<[phase |-> "prepare", ok |-> TRUE], [phase |-> "transfer", ok |-> FALSE],
                [phase |-> "rollback", ok |-> TRUE]>>

LogIs(i, step, ok) == i <= Len(dlog) /\ dlog[i] = [step |-> step, ok |-> ok]

\* C11: create_route is awaited only after connect_device returned True, and
\* set_volume only after create_route returned without raising; a step that
\* reports failure is the last step of the call, which returns False.
C11_StepsInOrder ==
    \A i \in 1..Len(dlog) :
        /\ dlog[i].step = "create_route" => i = 2 /\ LogIs(1, "connect", TRUE)
        /\ dlog[i].step = "set_volume" => i = 3 /\ LogIs(2, "create_route", TRUE)
        /\ ~dlog[i].ok => i = Len(dlog) /\ dpc \in {"returned", "idle"} /\ ~dret

C11_Witness ==
    /\ dpc = "returned" /\ ~dret
    /\ darg[2] = "connect"
    /\ LogIs(1, "connect", TRUE) /\ LogIs(2, "create_route", FALSE)
    /\ Len(dlog) = 2

C18_SetupFailureAborts ==
    setupFailed # None =>
        /\ npc \in {"finally_exc", "raised"}
        /\ ~rebuilt
        /\ ~tasksSet
        /\ spc["finally"] \in {"idle", "returned"}

C18_Witness ==
    /\ mode = "distributed"
    /\ setupFailed = "sync"
    /\ npc = "raised"

\* C19: the node is reported as running only after the setup of every
\* capability has completed (self.tasks is assigned at the end of setup), and
\* once started it is reported as stopped only after stop was called.
C19_Lifecycle ==
    /\ nodeStatus = "running" => tasksSet
    /\ (nodeStatus = "stopped" /\ npc # "idle") => \E c \in StopCalls : spc[c] # "idle"

C33_PoorSignalWarned ==
    (biter.n > 0 /\ biter.mode = "standalone") =>
        /\ \A mac \in DOMAIN biter.status :
              biter.status[mac].quality = "poor" => mac \in biter.warned
        /\ biter.handled = {}

\* C34: the signal quality of a connected device is "good" exactly when the
\* device has an rssi and it is above -80, and "poor" otherwise; the rssi
\* reported is the stored one, or None when none is stored, and the report
\* is made for the connected devices only.
C34_QualityFromRssi ==
    LET status == signal_quality(audioDevices)
    IN /\ DOMAIN status = {m \in DOMAIN audioDevices : audioDevices[m].connected}
       /\ \A mac \in DOMAIN status :
            LET device == audioDevices[mac]
                known == "rssi" \in DOMAIN device
            IN /\ status[mac].quality = IF known /\ device.rssi > -80 THEN "good"
                                        ELSE "poor"
               /\ status[mac].rssi = IF known THEN {device.rssi} ELSE {}
               /\ known => device.rssi \in RssiValues

C34_Witness ==
    /\ deviceOrder = <<"m1", "m2">>
    /\ audioDevices["m1"] = [connected |-> TRUE, rssi |-> -80]
    /\ audioDevices["m2"] = [connected |-> TRUE]
    /\ biter.n > 0 /\ biter.status = signal_quality(audioDevices)
    /\ biter.status["m1"] = [rssi |-> {-80}, quality |-> "poor"]
    /\ biter.status["m2"] = [rssi |-> {}, quality |-> "poor"]

\* C35: when two add_output_to_route calls with the same source and the same
\* target have both returned, the target is once in the outputs of the
\* route, the route has a link to the target, and no link to the target is
\* twice in the links of the route.
C35_ConcurrentAddsOnce ==
    (/\ \A c \in AddCalls : apc[c] = "returned"
     /\ aarg["a"].source = aarg["b"].source
     /\ aarg["a"].target = aarg["b"].target) =>
        LET route == routes[aarg["a"].rid]
        IN /\ Cardinality({i \in 1..Len(route.outputs) :
                              route.outputs[i] = aarg["a"].target}) = 1
           /\ \E l \in SeqToSet(route.links) : l[2] = aarg["a"].target
           /\ \A l \in SeqToSet(route.links) :
                 l[2] = aarg["a"].target =>
                     Cardinality({i \in 1..Len(route.links) : route.links[i] = l}) = 1

\* C36: a get_status call does not raise, and when it has returned its
\* route_health has a value for every route that was in the table when the
\* call began.
C36_RebuildSurvivesCreate ==
    /\ gpc # "raised"
    /\ gpc = "returned" => \A rid \in SeqToSet(gstart) : rid \in DOMAIN ghealth

\* C32: when the try block of a monitor raises an Exception, that monitor is
\* next at the sleep that ends its iteration (from where it iterates again),
\* the other monitors are where they were, and start is where it was with
\* _running as it was.
C32_MonitorErrorIsCaught ==
    [][\A t \in Monitors :
         (task[t] \in {"created", "sleep", "try"} /\ task'[t] # task[t]
            /\ t \notin cancelReq /\ lastError' = t
            /\ (task[t] = "try" \/ ~BodySuspends(t))
            /\ (task[t] = "try" => lastError # t)) =>
              /\ task'[t] = "sleep"
              /\ \A u \in Monitors \ {t} : task'[u] = task[u]
              /\ npc' = npc
              /\ running' = running]_vars

C32_Witness ==
    /\ mode = "distributed"
    /\ lastError = "sync"
    /\ task["sync"] = "sleep"
    /\ task["bluetooth"] = "try" /\ task["network"] = "sleep"
    /\ npc = "loop" /\ running

\* C38: a stop of a node that was started gets to its end only from
\* await self.sync.cleanup(), which is after await self.audio.cleanup() and
\* await self.bluetooth.cleanup(): both were invoked.
C38_StopInvokesCleanups ==
    [][\A c \in StopCalls :
         (npc # "idle" /\ spc[c] # "returned" /\ spc'[c] = "returned") =>
             spc[c] = "sync"]_vars

\* C40: once a call of stop has returned, node_status["status"] is not
\* "running".
C40_StoppedAfterStop ==
    (\E c \in StopCalls : spc[c] = "returned") => nodeStatus # "running"

\* C28: a sampling round in which the response to a sample does not arrive
\* is over all the same: the call that runs it is not left inside recvfrom.
C28_RoundEndsWithoutResponse ==
    (\E i \in 1..Len(rround) : rround[i] = Lost) => rpc # "blocked"

\* the snapshots _update_state builds: "status" and the get_status of the
\* interfaces, none of which has a field for an error; {} before the first
ErrorFreeSnapshots == {"unset"} \cup {StatusOf(r) : r \in BOOLEAN}

\* C30: once a call of a subsystem has raised inside _update_state or inside a
\* monitor iteration, the snapshot get_state returns is not one of a node
\* without an error (it holds the error), and start has not ended with an
\* exception unless a setup raised.
C30_SnapshotHoldsLastError ==
    lastError # None =>
        /\ nodeStatus \notin ErrorFreeSnapshots
        /\ setupFailed = None => npc # "raised"

(***************************************************************************)
(* Properties of the volume calls and of cleanup (SpecVolume).             *)
(***************************************************************************)
\* C22: a set_volume with a volume outside [0, 1] raises ValueError, spawns no
\* wpctl or pw-cli process, and leaves the volume cache as it was.
C22_OutOfRangeRejected ==
    (vlast.op = "set_volume" /\ (vlast.volume < 0 \/ vlast.volume > VolumeOne)) =>
        /\ vlast.exc = "ValueError"
        /\ vlast.calls = 0
        /\ vlast.same

C22_Witness ==
    /\ vlast.op = "set_volume" /\ vlast.device = "A" /\ vlast.volume = 11
    /\ vlast.exc = "ValueError"
    /\ "A" \in DOMAIN volumes /\ volumes["A"] = 10

\* C26: a cleanup asks for pw-link -d for every recorded link of every route,
\* then for set_volume(device, 0) for every device of the volume cache, and
\* for nothing else, whichever of these calls fail.
C26_CleanupAttemptsAll ==
    vlast.op = "cleanup" =>
        LET links == RecordedLinks(routeOrder, routes)
            n == Len(links)
            log == vlast.log
        IN /\ Len(log) = n + Cardinality(DOMAIN volumes)
           /\ \A i \in 1..n : log[i].call = "unlink" /\ log[i].link = links[i]
           /\ \A i \in (n + 1)..Len(log) : log[i].call = "set_volume"
           /\ {log[i].device : i \in (n + 1)..Len(log)} = DOMAIN volumes

C26_Witness ==
    /\ vlast.op = "cleanup"
    /\ Len(vlast.log) >= 4
    /\ vlast.log[1].call = "unlink" /\ vlast.log[1].link \in vlast.env.raise
    /\ vlast.log[2].call = "unlink"
    /\ DOMAIN volumes = {"A", "B"}
    /\ vlast.env.vol["A"] = "wpctl_raises" /\ vlast.env.vol["B"] = "wpctl_raises"
    /\ volumes["A"] = 10 /\ volumes["B"] = 10

\* the backend gave get_volume no volume: wpctl exited non-zero and pw-dump
\* had none for the device or printed no JSON, or a process could not be spawned
QueryFailed(env) == env.kind \in {"pwdump_other", "pwdump_fails", "raises"}

\* C27: a get_volume whose backend query failed returns the volume cached for
\* the device.
C27_FallsBackToCache ==
    (vlast.op = "get_volume" /\ QueryFailed(vlast.env) /\ vlast.device \in DOMAIN volumes) =>
        vlast.ret = volumes[vlast.device]

(***************************************************************************)
(* Properties of device discovery (SpecDiscover).                          *)
(***************************************************************************)
FoundSome(o) == ~o.raises /\ o.sinks # <<>>

\* C25: discover_devices makes at most 3 pw-dump queries, makes none after a
\* query that found a device, and when its last query found no device it
\* returns the empty table.
C25_DiscoverBounded ==
    /\ Len(attempts) <= RetryCount
    /\ \A i \in 1..(Len(attempts) - 1) : ~FoundSome(attempts[i])
    /\ (/\ qpc = "returned"
        /\ ~attempts[Len(attempts)].raises
        /\ attempts[Len(attempts)].sinks = <<>>) => outputs = <<>>

(***************************************************************************)
(* Properties of connect_device (SpecConnect).                             *)
(***************************************************************************)
\* C29: once 30 s have passed, a connect_device that is waiting for a pairing
\* notification with none to read can take a step of its own: it does not
\* need a line of the monitor to go on.
C29_ConnectNeverWaits ==
    (cpc = "monitor" /\ pairOver /\ notes = <<>>) => ENABLED ConnectStep

====
